---- MODULE Spec2Model ----
(***************************************************************************)
(* Model of the group-partitioner library: the options sanitizer, the      *)
(* family grouper, the scoring function, the greedy packer (solveMIP),     *)
(* k-means clustering with constraint repair (solveClustering), the        *)
(* HiGHS-backed solver (solveMIPWithLP) and the solve() entry point.       *)
(*                                                                         *)
(* A competitor is identified by its position in the input list; a         *)
(* guardianId of 0 stands for "no guardian".  Scores are IEEE 754 doubles. *)
(***************************************************************************)
EXTENDS Integers, Sequences, FiniteSets, TLC

(***************************************************************************)
(* Bounds of the model.                                                    *)
(***************************************************************************)
\* largest number of competitors given to solveMIP / solveClustering
MaxN == 5
\* largest number of competitors given to solveMIPWithLP and to auto mode
MaxLPN == 3
\* largest number of competitors of a call of solve() that is made twice
MaxRepeatN == 4
\* calculateScore called directly: most groups, and most members of a group
MaxScoreGroups == 3
MaxScoreGroupSize == 3
\* createGuardianFamilies called directly: most competitors
MaxGrouperN == 4
\* validateAndSanitizeOptions called directly: largest size option
MaxSizeOption == 7
\* largest number of competitors solveClustering is started on to see its
\* number of clusters
MaxClusterCountN == 6

(***************************************************************************)
(* Program constants.                                                      *)
(***************************************************************************)
DefaultMaxSubsets == 28
DefaultMinSubsetSize == 2
DefaultMaxSubsetSize == 6
DefaultPreferredSubsetSize == 4
DefaultWeight == 1
SmallEventLimit == 112
SmallEventMaxSize == 4
MinAllowedMinSize == 2
maxIterations == 100
MaxFamilySize == 3

(***************************************************************************)
(* Generic helpers.                                                        *)
(***************************************************************************)
Abs(x) == IF x < 0 THEN -x ELSE x
Min(a, b) == IF a < b THEN a ELSE b
Max(a, b) == IF a > b THEN a ELSE b

\* Math.ceil(a / b) and Math.floor(a / b) for a >= 0, b > 0
CeilDiv(a, b) == (a + b - 1) \div b
FloorDiv(a, b) == a \div b
\* Math.round(a / b) for a >= 0, b > 0 (halves round up)
RoundDiv(a, b) == (2 * a + b) \div (2 * b)

\* the sequence s as an explicit tuple: TLC re-evaluates the elements of a
\* function expression on every access, those of a tuple never
Tuple(s) == s \o <<>>

\* the function f as an explicit function, for the same reason
Explicit(f) == f @@ f

\* F applied to the values of its arguments, each evaluated once: TLC
\* re-evaluates an operator's argument expression wherever the operator's
\* body mentions the parameter
Bind(v, F(_)) == CHOOSE r \in { F(x) : x \in {v} } : TRUE
Bind2(v, w, F(_, _)) == CHOOSE r \in { F(x, y) : x \in {v}, y \in {w} } : TRUE
Bind3(u, v, w, F(_, _, _)) ==
    CHOOSE r \in { F(x, y, z) : x \in {u}, y \in {v}, z \in {w} } : TRUE

RECURSIVE SumSeq(_)
SumSeq(s) == Bind(s, LAMBDA t : IF t = <<>> THEN 0 ELSE Head(t) + SumSeq(Tail(t)))

RECURSIVE FlattenSeq(_)
FlattenSeq(ss) ==
    Bind(ss, LAMBDA t : IF t = <<>> THEN <<>> ELSE Head(t) \o FlattenSeq(Tail(t)))

Range(s) == Bind(s, LAMBDA t : {t[i] : i \in DOMAIN t})

\* Array.prototype.splice(i, 1) on a 1-based sequence
RemoveAt(s, i) ==
    Bind2(s, i, LAMBDA t, k :
        Tuple([j \in 1..(Len(t) - 1) |-> IF j < k THEN t[j] ELSE t[j + 1]]))

\* [...new Set(values)]: the distinct values in order of first appearance
RECURSIVE UniqueInOrder(_)
UniqueInOrder(s) ==
    Bind(s, LAMBDA t :
        IF t = <<>> THEN <<>>
        ELSE Bind2(UniqueInOrder(SubSeq(t, 1, Len(t) - 1)), t[Len(t)], LAMBDA rest, x :
                 IF x \in Range(rest) THEN rest ELSE Append(rest, x)))

(***************************************************************************)
(* IEEE 754 doubles, as far as the scores need them: the values are never  *)
(* negative.  A finite double is [a, b, c, e]: the 53-bit significand      *)
(* a * 2^40 + b * 2^20 + c (three limbs, so that every intermediate value  *)
(* stays below 2^31) times 2^e, with 2^12 <= a < 2^13 unless the value is  *)
(* zero.  Every operation rounds to nearest, ties to even.                 *)
(***************************************************************************)
Limb == 2^20
\* the top limb of a normalised significand lies in TopMin .. TopMax - 1
TopMin == 2^12
TopMax == 2^13

DZero == [a |-> 0, b |-> 0, c |-> 0, e |-> 0]
NaN == [a |-> -1, b |-> 0, c |-> 0, e |-> 0]
Infinity == [a |-> -2, b |-> 0, c |-> 0, e |-> 0]
IsNaN(x) == x.a = -1
IsFinite(x) == x.a >= 0

\* the significand w (its top limb may be wider than a limb) multiplied by a
\* small k, divided by a small n, and two of them added
TimesW(w, k) ==
    Bind(w, LAMBDA u :
        Bind(u.c * k, LAMBDA pc :
            Bind(u.b * k + pc \div Limb, LAMBDA pb :
                [ a |-> u.a * k + pb \div Limb, b |-> pb % Limb, c |-> pc % Limb ])))
\* <<quotient, remainder>>
DivideW(w, n) ==
    Bind(w, LAMBDA u :
        Bind((u.a % n) * Limb + u.b, LAMBDA rb :
            Bind((rb % n) * Limb + u.c, LAMBDA rc :
                << [ a |-> u.a \div n, b |-> rb \div n, c |-> rc \div n ], rc % n >>)))
PlusW(v, w) ==
    Bind2(v, w, LAMBDA x, y :
        Bind(x.c + y.c, LAMBDA sc :
            Bind(x.b + y.b + sc \div Limb, LAMBDA sb :
                [ a |-> x.a + y.a + sb \div Limb, b |-> sb % Limb, c |-> sc % Limb ])))
\* w without its p lowest bits, p = 2^d a power of two of at most a limb
DropBits(w, p) ==
    [ a |-> w.a \div p,
      b |-> w.b \div p + (w.a % p) * (Limb \div p),
      c |-> w.c \div p + (w.b % p) * (Limb \div p) ]

\* the number of bits of n: 0 for 0, otherwise 1 + floor(log2(n))
bitLength(n) == CHOOSE k \in 0..30 : n < 2^k /\ (k = 0 \/ n >= 2^(k - 1))

\* w * 2^e, w below 2^53 and exact, normalised
RECURSIVE ShiftUp(_, _)
ShiftUp(w, e) ==
    Bind2(w, e, LAMBDA u, x :
        IF u.a = 0 /\ u.b = 0 /\ u.c = 0 THEN DZero
        ELSE IF u.a = 0
        THEN ShiftUp([ a |-> u.b \div 2^7,
                       b |-> (u.b % 2^7) * TopMax + u.c \div 2^7,
                       c |-> (u.c % 2^7) * TopMax ], x - 13)
        ELSE IF u.a < TopMin
        THEN Bind(13 - bitLength(u.a), LAMBDA s :
                 Bind(IF s > 6 THEN TimesW(TimesW(u, 2^6), 2^(s - 6)) ELSE TimesW(u, 2^s),
                      LAMBDA v : [a |-> v.a, b |-> v.b, c |-> v.c, e |-> x - s]))
        ELSE [a |-> u.a, b |-> u.b, c |-> u.c, e |-> x])

\* w * 2^e rounded to 53 bits: round is the last bit shifted out, sticky
\* tells whether any bit shifted out before it was set
RECURSIVE ShiftDown(_, _, _, _)
ShiftDown(w, e, round, sticky) ==
    Bind2(w, <<e, round, sticky>>, LAMBDA u, t :
        IF u.a >= TopMax
        THEN Bind(2^(bitLength(u.a) - 13), LAMBDA p :
                 ShiftDown(DropBits(u, p), t[1] + bitLength(u.a) - 13,
                           (u.c % p) \div (p \div 2) = 1,
                           t[3] \/ t[2] \/ u.c % (p \div 2) # 0))
        ELSE IF t[2] /\ (t[3] \/ u.c % 2 = 1)
             THEN Bind(PlusW(u, [a |-> 0, b |-> 0, c |-> 1]), LAMBDA up :
                      IF up.a >= TopMax
                      THEN [a |-> TopMin, b |-> 0, c |-> 0, e |-> t[1] + 1]
                      ELSE [a |-> up.a, b |-> up.b, c |-> up.c, e |-> t[1]])
             ELSE [a |-> u.a, b |-> u.b, c |-> u.c, e |-> t[1]])

RoundW(w, e, sticky) ==
    Bind(w, LAMBDA u :
        IF u.a >= TopMax THEN ShiftDown(u, e, FALSE, sticky) ELSE ShiftUp(u, e))

\* the number k >= 0 as a double (exact below 2^20)
DInt(k) == ShiftUp([a |-> 0, b |-> 0, c |-> k], 0)

\* x * k for an integer 0 <= k < 2^10
DTimesInt(x, k) ==
    Bind(x, LAMBDA u :
        IF IsNaN(u) THEN NaN
        ELSE IF ~IsFinite(u) THEN (IF k = 0 THEN NaN ELSE Infinity)
        ELSE RoundW(TimesW(u, k), u.e, FALSE))

\* x / n for an integer 0 <= n < 2^7; 0 / 0 is NaN
DDivInt(x, n) ==
    Bind(x, LAMBDA u :
        IF IsNaN(u) THEN NaN
        ELSE IF ~IsFinite(u) THEN Infinity
        ELSE IF n = 0 THEN (IF u = DZero THEN NaN ELSE Infinity)
        ELSE Bind(DivideW(TimesW(u, 256), n), LAMBDA q :
                 RoundW(q[1], u.e - 8, q[2] # 0)))

\* w shifted right by d bits: <<what is left, whether a set bit was lost>>
RECURSIVE ShiftRightW(_, _, _)
ShiftRightW(w, d, lost) ==
    Bind2(w, <<d, lost>>, LAMBDA u, t :
        IF t[1] = 0 THEN <<u, t[2]>>
        ELSE IF u.a = 0 /\ u.b = 0 /\ u.c = 0 THEN <<u, t[2]>>
        ELSE Bind(IF t[1] > 10 THEN 10 ELSE t[1], LAMBDA k :
                 ShiftRightW(DropBits(u, 2^k), t[1] - k, t[2] \/ u.c % 2^k # 0)))

\* x + y
DPlus(x, y) ==
    Bind2(x, y, LAMBDA u, v :
        IF IsNaN(u) \/ IsNaN(v) THEN NaN
        ELSE IF ~IsFinite(u) \/ ~IsFinite(v) THEN Infinity
        ELSE IF u = DZero THEN v
        ELSE IF v = DZero THEN u
        ELSE IF u.e < v.e
        THEN Bind(ShiftRightW(TimesW(u, 4), v.e - u.e, FALSE), LAMBDA s :
                 RoundW(PlusW(TimesW(v, 4), s[1]), v.e - 2, s[2]))
        ELSE Bind(ShiftRightW(TimesW(v, 4), u.e - v.e, FALSE), LAMBDA s :
                 RoundW(PlusW(TimesW(u, 4), s[1]), u.e - 2, s[2])))

\* x > y of JavaScript: false when either side is NaN
DGreater(x, y) ==
    Bind2(x, y, LAMBDA u, v :
        IF IsNaN(u) \/ IsNaN(v) THEN FALSE
        ELSE IF ~IsFinite(v) THEN FALSE
        ELSE IF ~IsFinite(u) THEN TRUE
        ELSE IF u = DZero THEN FALSE
        ELSE IF v = DZero THEN TRUE
        ELSE IF u.e # v.e THEN u.e > v.e
        ELSE IF u.a # v.a THEN u.a > v.a
        ELSE IF u.b # v.b THEN u.b > v.b
        ELSE u.c > v.c)

\* k / n of two integers
DQuot(k, n) == DDivInt(DInt(k), n)

(***************************************************************************)
(* Inputs: competitor lists and user options.                              *)
(***************************************************************************)
\* attribute combinations the competitors of the model are drawn from
FirstProfile == [gender |-> "F", ageCategory |-> "A", equipmentClass |-> "HB"]
SecondProfile == [gender |-> "M", ageCategory |-> "J", equipmentClass |-> "LB"]
Profiles == { FirstProfile, SecondProfile }

\* family sizes in input order: every family has 1..MaxFamilySize members
Shapes(n) ==
    { s \in UNION { [1..k -> 1..MaxFamilySize] : k \in 0..n } : SumSeq(s) = n }

\* the family (1-based) that position i of the list lies in, and its first position
RECURSIVE FamilyStart(_, _)
FamilyStart(shape, f) == IF f = 1 THEN 1 ELSE FamilyStart(shape, f - 1) + shape[f - 1]
FamilyOfPos(shape, i) ==
    CHOOSE f \in DOMAIN shape :
        FamilyStart(shape, f) <= i /\ i < FamilyStart(shape, f) + shape[f]

\* a valid competitor list: unique ids, single-level guardian references to
\* existing competitors, families of at most MaxFamilySize members; the
\* guardian is the first or the last member of its family in the list
BuildCompetitors(shape, profs, guardianLast) ==
    [ i \in 1..Len(profs) |->
        LET f == FamilyOfPos(shape, i)
            first == FamilyStart(shape, f)
            g == IF guardianLast THEN first + shape[f] - 1 ELSE first
        IN [ gender |-> profs[i].gender,
             ageCategory |-> profs[i].ageCategory,
             equipmentClass |-> profs[i].equipmentClass,
             guardianId |-> IF i = g THEN 0 ELSE g ] ]

\* whether the guardian comes last in its family (after its dependents)
GuardianPlacements == {FALSE}

\* the profiles of n competitors: the first k have one profile, the rest the other
ProfileVectors(n) ==
    { [ i \in 1..n |-> IF i <= k THEN p ELSE q ] :
        k \in 0..n, p \in Profiles, q \in Profiles }

CompetitorLists(maxN) ==
    UNION { { BuildCompetitors(shape, profs, gl) :
                shape \in Shapes(n), profs \in ProfileVectors(n),
                gl \in GuardianPlacements }
            : n \in 0..maxN }

DEFAULT_OPTIONS ==
    [ algorithm |-> "auto",
      groupByEquipmentClass |-> TRUE,
      maxSubsets |-> DefaultMaxSubsets,
      minSubsetSize |-> DefaultMinSubsetSize,
      maxSubsetSize |-> DefaultMaxSubsetSize,
      preferredSubsetSize |-> DefaultPreferredSubsetSize,
      genderWeight |-> DefaultWeight,
      ageCategoryWeight |-> DefaultWeight,
      equipmentClassWeight |-> DefaultWeight ]

\* { ...defaults, ...options }
MergeOptions(defaults, options) ==
    Bind2(defaults, options, LAMBDA d, o :
        Explicit([ k \in DOMAIN d |-> IF k \in DOMAIN o THEN o[k] ELSE d[k] ]))

\* the partial option objects a caller passes (the algorithm is added in Init)
NoOptions == [ x \in {} |-> 0 ]
UserOptionSets ==
    { NoOptions,
      [ minSubsetSize |-> 2, maxSubsetSize |-> 2, preferredSubsetSize |-> 2 ],
      [ minSubsetSize |-> 10, maxSubsetSize |-> 1, preferredSubsetSize |-> 0 ],
      [ minSubsetSize |-> 3, maxSubsetSize |-> 2, preferredSubsetSize |-> 5,
        maxSubsets |-> 2, groupByEquipmentClass |-> FALSE, genderWeight |-> 2 ],
      [ maxSubsets |-> 1 ],
      [ minSubsetSize |-> 5 ],
      [ maxSubsets |-> 0 ],
      [ maxSubsets |-> -1 ] }

Algorithms == { "mip", "mip-lp", "clustering", "auto" }

(***************************************************************************)
(* Options sanitizer (common/options-validator.ts).                        *)
(***************************************************************************)
\* the steps of validateAndSanitizeOptions, in the order of the code
swapInverted(o) ==
    IF o.minSubsetSize > o.maxSubsetSize
    THEN [o EXCEPT !.minSubsetSize = o.maxSubsetSize, !.maxSubsetSize = o.minSubsetSize]
    ELSE o
raiseMinimum(o) ==
    IF o.minSubsetSize < MinAllowedMinSize THEN [o EXCEPT !.minSubsetSize = MinAllowedMinSize]
    ELSE o
raiseMaximum(o) ==
    IF o.maxSubsetSize < o.minSubsetSize THEN [o EXCEPT !.maxSubsetSize = o.minSubsetSize]
    ELSE o
raisePreferred(o) ==
    IF o.preferredSubsetSize < o.minSubsetSize
    THEN [o EXCEPT !.preferredSubsetSize = o.minSubsetSize] ELSE o
lowerPreferred(o) ==
    IF o.preferredSubsetSize > o.maxSubsetSize
    THEN [o EXCEPT !.preferredSubsetSize = o.maxSubsetSize] ELSE o
\* a clamp that spares an event of exactly SmallEventLimit competitors
clampBelowLimit(o, competitorCount) ==
    IF competitorCount < SmallEventLimit
    THEN [o EXCEPT !.maxSubsetSize = Min(o.maxSubsetSize, SmallEventMaxSize)]
    ELSE o
clampSmallEvent(o, competitorCount) ==
    IF competitorCount <= SmallEventLimit
    THEN [o EXCEPT !.maxSubsetSize = Min(o.maxSubsetSize, SmallEventMaxSize)]
    ELSE o

validateAndSanitizeOptions(options, competitorCount) ==
    LET clamp(o) == clampSmallEvent(o, competitorCount)
    IN Bind(Bind(Bind(Bind(Bind(Bind(MergeOptions(DEFAULT_OPTIONS, options),
           swapInverted), raiseMinimum), raiseMaximum), raisePreferred), lowerPreferred),
           clamp)

\* the caller's options object once the sanitizer has run: a sanitizer that
\* assigned its corrections to the object it was given
sanitizeCallersObject(callers, sanitized) == sanitized

\* the caller's options object once the sanitizer has run: sanitizedOptions
\* is a new object, { ...DEFAULT_OPTIONS, ...options }, and every correction
\* is assigned to it
callersOptionsAfter(callers, sanitized) == callers

(***************************************************************************)
(* Family grouper (utils: createGuardianFamilies).  A family is the        *)
(* sequence of the positions of its members.                               *)
(***************************************************************************)
\* guardianToDependents.get(g): the dependents of g in input order
\* a grouper that records only the first dependent of a guardian
firstDependent(cs, g) ==
    LET all == SelectSeq([i \in 1..Len(cs) |-> i], LAMBDA i : cs[i].guardianId = g)
    IN IF all = <<>> THEN <<>> ELSE <<all[1]>>

Dependents(cs, g) == SelectSeq([i \in 1..Len(cs) |-> i], LAMBDA i : cs[i].guardianId = g)

\* a grouper that emits a family where its first member stands in the input
RECURSIVE familiesAtFirstMember(_, _, _)
familiesAtFirstMember(cs, i, processed) ==
    IF i > Len(cs) THEN <<>>
    ELSE IF i \in processed THEN familiesAtFirstMember(cs, i + 1, processed)
    ELSE LET g == IF cs[i].guardianId # 0 THEN cs[i].guardianId ELSE i
             family == <<g>> \o Dependents(cs, g)
         IN <<family>> \o familiesAtFirstMember(cs, i + 1, processed \cup Range(family))

RECURSIVE FamiliesFrom(_, _, _)
FamiliesFrom(cs, i, processed) ==
    IF i > Len(cs) THEN <<>>
    ELSE IF i \in processed THEN FamiliesFrom(cs, i + 1, processed)
    ELSE IF Dependents(cs, i) # <<>>
         THEN LET family == <<i>> \o Dependents(cs, i)
              IN <<family>> \o FamiliesFrom(cs, i + 1, processed \cup Range(family))
    ELSE IF cs[i].guardianId # 0 THEN FamiliesFrom(cs, i + 1, processed)
    ELSE <<<<i>>>> \o FamiliesFrom(cs, i + 1, processed \cup {i})

createGuardianFamilies(cs) == FamiliesFrom(cs, 1, {})

(***************************************************************************)
(* Scoring engine (utils: calculateScore, createPartitionResult).          *)
(* A subset is a sequence of competitor positions.                         *)
(***************************************************************************)
\* how many members of the subset have value v for the attribute
CountAttr(cs, subset, attr, v) ==
    Cardinality({ i \in DOMAIN subset : cs[subset[i]][attr] = v })
AttrValues(cs, subset, attr) == { cs[subset[i]][attr] : i \in DOMAIN subset }

\* Math.max(...counts.values()); the model never scores an empty subset
MaxAttrCount(cs, subset, attr) ==
    Bind({ CountAttr(cs, subset, attr, v) : v \in AttrValues(cs, subset, attr) },
         LAMBDA counts :
             IF counts = {} THEN 0 ELSE CHOOSE c \in counts : \A o \in counts : c >= o)

\* sum of the counts of the genders that occur an even number of times
GenderBalance(cs, subset) ==
    Cardinality({ i \in DOMAIN subset :
                    CountAttr(cs, subset, "gender", cs[subset[i]].gender) % 2 = 0 })

SubsetSizeScore(subset, opts) ==
    Bind(10 - Abs(Len(subset) - opts.preferredSubsetSize) * 2, LAMBDA s : Max(0, s))
SubsetGenderScore(cs, subset) ==
    DTimesInt(DQuot(GenderBalance(cs, subset), Len(subset)), 10)
SubsetAgeScore(cs, subset) ==
    DTimesInt(DQuot(MaxAttrCount(cs, subset, "ageCategory"), Len(subset)), 10)
SubsetEquipmentScore(cs, subset, opts) ==
    IF opts.groupByEquipmentClass
    THEN DTimesInt(DQuot(MaxAttrCount(cs, subset, "equipmentClass"), Len(subset)), 10)
    ELSE DTimesInt(DQuot(Cardinality(AttrValues(cs, subset, "equipmentClass")),
                         Bind(Len(subset), LAMBDA size : Min(size, 3))), 10)

\* the running "+=" over a list of values, from 0 and in list order
RECURSIVE DSum(_)
DSum(xs) ==
    Bind(xs, LAMBDA t :
        IF t = <<>> THEN DZero
        ELSE DPlus(DSum(SubSeq(t, 1, Len(t) - 1)), t[Len(t)]))

calculateScore(cs, subsets, options) ==
    Bind3(cs, subsets, MergeOptions(DEFAULT_OPTIONS, options), LAMBDA c, ss, opts :
        LET totalSubsets == Len(ss)
            sizeScore == DSum([i \in DOMAIN ss |-> DInt(SubsetSizeScore(ss[i], opts))])
            genderScore == DSum([i \in DOMAIN ss |-> SubsetGenderScore(c, ss[i])])
            ageCategoryScore == DSum([i \in DOMAIN ss |-> SubsetAgeScore(c, ss[i])])
            equipmentClassScore ==
                DSum([i \in DOMAIN ss |-> SubsetEquipmentScore(c, ss[i], opts)])
        IN Bind([ sizeScore |-> DDivInt(sizeScore, totalSubsets),
                  genderScore |->
                      DTimesInt(DDivInt(genderScore, totalSubsets), opts.genderWeight),
                  ageCategoryScore |->
                      DTimesInt(DDivInt(ageCategoryScore, totalSubsets),
                                opts.ageCategoryWeight),
                  equipmentClassScore |->
                      DTimesInt(DDivInt(equipmentClassScore, totalSubsets),
                                opts.equipmentClassWeight) ],
                LAMBDA breakdown :
                    [ score |-> DPlus(DPlus(DPlus(breakdown.sizeScore, breakdown.genderScore),
                                            breakdown.ageCategoryScore),
                                      breakdown.equipmentClassScore),
                      breakdown |-> breakdown ]))

createPartitionResult(cs, subsets, options) ==
    Bind(subsets, LAMBDA ss :
        Bind2(SumSeq([i \in DOMAIN ss |-> Len(ss[i])]), calculateScore(cs, ss, options),
              LAMBDA totalCompetitors, sc :
                  [ subsets |-> ss,
                    score |-> sc.score,
                    totalCompetitors |-> totalCompetitors,
                    totalSubsets |-> Len(ss),
                    averageSubsetSize |-> DQuot(totalCompetitors, Len(ss)),
                    scoreBreakdown |-> sc.breakdown ]))

(***************************************************************************)
(* State of one call of solve(competitors, options).                       *)
(***************************************************************************)
VARIABLES
    competitors,          \* the caller's competitor list
    options,              \* the caller's (partial) options object
    pc,                   \* the statement the call is at
    running,              \* the algorithm that is running
    results,              \* auto mode: the AlgorithmResults collected so far
    outcome,              \* what solve() returned or raised
    opts,                 \* the running algorithm's sanitized options
    families,             \* the running algorithm's guardian families
    solver,               \* the solver object: its options and maxSubsets fields
    subsets,              \* the subsets under construction
    unassignedFamilies,   \* greedy: families not yet placed
    currentSubset,        \* greedy: 0-based index of the subset being filled
    canAddMore,           \* greedy: flag of the inner loop
    solution,             \* greedy: the pairs <<competitor, subset>> whose variable is 1
    familyFeatures,       \* clustering: the feature vector of every family
    numClusters,          \* clustering: the number of clusters asked for
    centers,              \* clustering: the cluster centers
    iteration,            \* clustering: k-means iteration counter
    classifyIdx,          \* clustering: next center of adjustClusterSizes' first loop
    validCenters,         \* clustering: members of the clusters accepted so far
    redistributeFamilies, \* clustering: families waiting to be redistributed
    sortedFamilies,       \* clustering: families the global rebalance still has to place
    targetSize,           \* clustering: target size of the global rebalance
    cleanupIterations,    \* clustering: <<cleanupIterations, maxCleanupIterations>>
    random,               \* Math.random(): whether it is seeded, and its draws
    firstRun,             \* what the caller's earlier, identical call of solve() gave
    call                  \* a direct call of an exported function and what it returned

inputVars == <<competitors, options>>
callerVars == <<firstRun, call>>
localVars == <<opts, families, solver>>
greedyVars == <<unassignedFamilies, currentSubset, canAddMore, solution>>
clusterVars == <<familyFeatures, numClusters, centers, iteration, classifyIdx,
                 validCenters, redistributeFamilies, sortedFamilies, targetSize,
                 cleanupIterations>>
vars == <<competitors, options, pc, running, results, outcome, opts, families, solver, subsets,
          unassignedFamilies, currentSubset, canAddMore, solution,
          familyFeatures, numClusters, centers, iteration, classifyIdx, validCenters,
          redistributeFamilies, sortedFamilies, targetSize, cleanupIterations,
          random, firstRun, call>>

NumCompetitors == Len(competitors)
FamilySize(f) == Len(families[f])
NoSolver == [options |-> DEFAULT_OPTIONS, maxSubsets |-> 0]
\* options.algorithm || 'auto'
Algorithm == IF "algorithm" \in DOMAIN options THEN options.algorithm ELSE "auto"

NoOutcome == [status |-> "pending"]
Returned(algorithmResult) == [status |-> "returned", value |-> algorithmResult]
Raised(error) == [status |-> "raised", error |-> error]

\* Math.random(): unseeded, every draw is free; seeded, the draws of a run are
\* recorded in stream, and a later run from the same seed draws them again
\* in order (next is the position in stream of the next draw)
Unseeded == [seeded |-> FALSE, replaying |-> FALSE, stream |-> <<>>, next |-> 1]
Seeded == [seeded |-> TRUE, replaying |-> FALSE, stream |-> <<>>, next |-> 1]

\* a generator that takes no notice of its seed
freshDraws(site, values) == values

\* the values the call site can get from its next draw, out of those it maps
\* the results of Math.random() to
Draws(site, values) ==
    IF /\ random.replaying /\ random.next <= Len(random.stream)
       /\ random.stream[random.next].site = site
       /\ random.stream[random.next].value \in values
    THEN {random.stream[random.next].value}
    ELSE values

\* the generator after the call site has drawn value
afterDraw(site, value) ==
    IF random.replaying
    THEN [random EXCEPT !.next = @ + 1]
    ELSE IF random.seeded
         THEN [random EXCEPT !.stream = Append(@, [site |-> site, value |-> value]),
                             !.next = @ + 1]
         ELSE random

NoCall == [fn |-> "none", done |-> TRUE]

\* the locals of a call of solve() that has not started
FreshCall ==
    /\ pc = "solve"
    /\ running = "none"
    /\ results = <<>>
    /\ outcome = NoOutcome
    /\ opts = DEFAULT_OPTIONS
    /\ families = <<>>
    /\ solver = NoSolver
    /\ subsets = <<>>
    /\ unassignedFamilies = <<>>
    /\ currentSubset = 0
    /\ canAddMore = FALSE
    /\ solution = {}
    /\ familyFeatures = <<>>
    /\ numClusters = 0
    /\ centers = <<>>
    /\ iteration = 0
    /\ classifyIdx = 1
    /\ validCenters = <<>>
    /\ redistributeFamilies = <<>>
    /\ sortedFamilies = <<>>
    /\ targetSize = 0
    /\ cleanupIterations = <<0, 0>>

Init ==
    /\ options \in { uo @@ ("algorithm" :> a) : uo \in UserOptionSets, a \in Algorithms }
    /\ competitors \in CompetitorLists(MaxN)
    /\ (options.algorithm \in {"mip-lp", "auto"} => Len(competitors) <= MaxLPN)
    /\ FreshCall
    /\ random = Unseeded
    /\ firstRun = NoOutcome
    /\ call = NoCall

(***************************************************************************)
(* Common algorithm plumbing (common/algorithm-base.ts, index: solve).     *)
(***************************************************************************)
AlgorithmName(alg) ==
    CASE alg = "mip" -> "Mixed Integer Programming"
      [] alg = "mip-lp" -> "Mixed Integer Programming (HiGHS)"
      [] alg = "clustering" -> "K-means Clustering"

createAlgorithmResult(cs, ss, o, algorithmName) ==
    [ result |-> createPartitionResult(cs, ss, o), algorithmUsed |-> algorithmName,
      autoSelected |-> FALSE ]

\* an empty-input result that holds one empty group
handleEmptyAsOneGroup(o, algorithmName) ==
    [ result |-> createPartitionResult(<<>>, << <<>> >>, validateAndSanitizeOptions(o, 0)),
      algorithmUsed |-> algorithmName, autoSelected |-> FALSE ]

handleEmptyDataset(o, algorithmName) ==
    [ result |-> createPartitionResult(<<>>, <<>>, validateAndSanitizeOptions(o, 0)),
      algorithmUsed |-> algorithmName, autoSelected |-> FALSE ]

\* the algorithm auto mode runs after alg ("none": alg was the last one)
NextAlgorithm(alg) ==
    CASE alg = "mip" -> "mip-lp"
      [] alg = "mip-lp" -> "clustering"
      [] alg = "clustering" -> "none"

\* results.reduce((best, current) => current.score > best.score ? current : best)
RECURSIVE ReduceBest(_, _)
ReduceBest(best, rest) ==
    Bind2(best, rest, LAMBDA b, rs :
        IF rs = <<>> THEN b
        ELSE ReduceBest(IF DGreater(Head(rs).result.score, b.result.score)
                        THEN Head(rs) ELSE b, Tail(rs)))
bestResult(rs) == ReduceBest(Head(rs), Tail(rs))

\* the running algorithm returns algorithmResult to solve()
Return(algorithmResult) ==
    \E returned \in { algorithmResult } :
        IF Algorithm \in {"mip", "mip-lp", "clustering"}
        THEN /\ outcome' = Returned(returned)
             /\ pc' = "done"
             /\ running' = "none"
             /\ results' = results
        ELSE \E rs \in { Append(results, returned) } :
             \E nxt \in { NextAlgorithm(running) } :
                /\ results' = rs
                /\ running' = nxt
                /\ IF nxt = "none"
                   THEN /\ outcome' =
                               Returned([ bestResult(rs) EXCEPT !.autoSelected = TRUE ])
                        /\ pc' = "done"
                   ELSE /\ outcome' = outcome
                        /\ pc' = "start"

\* the running algorithm throws: nothing in solve() catches it
Raise(error) ==
    /\ outcome' = Raised(error)
    /\ pc' = "done"
    /\ running' = "none"
    /\ results' = results

\* solve(): the switch on options.algorithm
Solve ==
    /\ pc = "solve"
    /\ running' = IF Algorithm = "auto" THEN "mip" ELSE Algorithm
    /\ pc' = "start"
    /\ UNCHANGED <<inputVars, callerVars, random, localVars, results, outcome, subsets, greedyVars, clusterVars>>

(***************************************************************************)
(* Greedy packer (algorithms/mip-solver: SimpleMIPSolver, solveMIP).       *)
(***************************************************************************)
\* the constructor of SimpleMIPSolver: it sanitizes the options it is given
\* again and derives this.maxSubsets
SimpleMIPSolver(cs, o) ==
    LET construct(thisOptions) ==
            [ options |-> thisOptions,
              maxSubsets |-> Min(thisOptions.maxSubsets,
                                 CeilDiv(Len(cs), thisOptions.minSubsetSize)) ]
    IN Bind(validateAndSanitizeOptions(o, Len(cs)), construct)

\* SimpleMIPSolver.calculateSubsetScore
calculateSubsetScore(cs, subset, o) ==
    Bind(subset, LAMBDA s :
        IF Len(s) = 0 THEN DZero
        ELSE DPlus(DPlus(DInt(SubsetSizeScore(s, o)),
                         DTimesInt(SubsetGenderScore(cs, s), o.genderWeight)),
                   DTimesInt(SubsetAgeScore(cs, s), o.ageCategoryWeight)))

\* a scan that tries the head of the backlog only
headFamilyIndex(cs, fams, o, subset, unassigned) ==
    IF unassigned # <<>> /\ Len(subset) + Len(fams[unassigned[1]]) <= o.maxSubsetSize
    THEN 1 ELSE 0

\* the scan of the inner loop: index in unassigned of the first family with the
\* highest test score among those that fit, 0 when none fits
RECURSIVE ScanBestFamily(_, _, _, _, _, _, _)
ScanBestFamily(cs, fams, o, subset, unassigned, i, best) ==
    IF i > Len(unassigned) THEN best.index
    ELSE Bind3(fams[unassigned[i]], best, i, LAMBDA family, b, k :
             Bind(calculateSubsetScore(cs, subset \o family, o), LAMBDA testScore :
                 IF /\ Len(subset) + Len(family) <= o.maxSubsetSize
                    /\ (b.index = 0 \/ DGreater(testScore, b.score))
                 THEN ScanBestFamily(cs, fams, o, subset, unassigned, k + 1,
                                     [index |-> k, score |-> testScore])
                 ELSE ScanBestFamily(cs, fams, o, subset, unassigned, k + 1, b)))
bestFamilyIndex(cs, fams, o, subset, unassigned) ==
    ScanBestFamily(cs, fams, o, subset, unassigned, 1, [index |-> 0, score |-> DZero])

\* solveMIP up to the call of solveGreedy
GreedyStart ==
    /\ pc = "start" /\ running = "mip"
    /\ \E o \in { validateAndSanitizeOptions(options, NumCompetitors) } :
       \E s \in { SimpleMIPSolver(competitors, o) } :
       \E fams \in { createGuardianFamilies(competitors) } :
          IF NumCompetitors = 0
          THEN /\ Return(handleEmptyDataset(options, AlgorithmName("mip")))
               /\ UNCHANGED <<localVars, subsets, greedyVars>>
          ELSE IF s.maxSubsets < 0
          THEN \* Array(this.maxSubsets): RangeError, invalid array length
               /\ Raise("RangeError")
               /\ opts' = o
               /\ solver' = s
               /\ UNCHANGED <<families, subsets, greedyVars>>
          ELSE /\ opts' = o
               /\ solver' = s
               /\ families' = fams
               /\ subsets' = [j \in 1..s.maxSubsets |-> <<>>]
               /\ unassignedFamilies' = [f \in 1..Len(fams) |-> f]
               /\ currentSubset' = 0
               /\ canAddMore' = FALSE
               /\ solution' = {}
               /\ pc' = "greedy_outer"
               /\ UNCHANGED <<running, results, outcome>>
    /\ options' = callersOptionsAfter(options,
                                      validateAndSanitizeOptions(options, NumCompetitors))
    /\ UNCHANGED <<competitors, callerVars, random, clusterVars>>

\* the test of the outer while loop of solveGreedy
GreedyOuter ==
    /\ pc = "greedy_outer"
    /\ IF unassignedFamilies # <<>> /\ currentSubset < solver.maxSubsets
       THEN canAddMore' = TRUE /\ pc' = "greedy_inner"
       ELSE canAddMore' = canAddMore /\ pc' = "greedy_leftover"
    /\ UNCHANGED <<inputVars, callerVars, random, localVars, running, results, outcome, subsets,
                   unassignedFamilies, currentSubset, solution, clusterVars>>

\* one pass of the inner while loop, or its exit and the advance that follows it
GreedyInner ==
    /\ pc = "greedy_inner"
    /\ \E subset \in { subsets[currentSubset + 1] } :
       \E best \in { bestFamilyIndex(competitors, families, solver.options, subset,
                                     unassignedFamilies) } :
          IF canAddMore /\ unassignedFamilies # <<>>
          THEN IF best > 0
               THEN LET family == families[unassignedFamilies[best]]
                    IN /\ subsets' = [subsets EXCEPT ![currentSubset + 1] = subset \o family]
                       /\ unassignedFamilies' = RemoveAt(unassignedFamilies, best)
                       /\ solution' = solution \cup
                              { <<family[m], currentSubset>> : m \in DOMAIN family }
                       /\ UNCHANGED <<canAddMore, currentSubset, pc>>
               ELSE /\ canAddMore' = FALSE
                    /\ UNCHANGED <<subsets, unassignedFamilies, solution, currentSubset, pc>>
          ELSE IF Len(subset) >= solver.options.minSubsetSize \/ ~canAddMore
               THEN /\ currentSubset' = currentSubset + 1
                    /\ pc' = "greedy_outer"
                    /\ UNCHANGED <<subsets, unassignedFamilies, solution, canAddMore>>
               ELSE /\ pc' = IF unassignedFamilies = <<>> THEN "greedy_leftover"
                             ELSE "greedy_outer"
                    /\ UNCHANGED <<subsets, unassignedFamilies, solution, canAddMore,
                                   currentSubset>>
    /\ UNCHANGED <<inputVars, callerVars, random, localVars, running, results, outcome, clusterVars>>

\* the scan of the leftover pass: 0-based index of the subset with the highest
\* size-and-space score among those with room for the family, 0 when none has
RECURSIVE ScanBestSubset(_, _, _, _, _)
ScanBestSubset(o, ss, familyLen, i, best) ==
    IF i > Len(ss) THEN best.index
    ELSE Bind3(Len(ss[i]), best, i, LAMBDA currentSize, b, k :
             LET newSize == currentSize + familyLen
                 availableSpace == o.maxSubsetSize - currentSize
                 totalScore == 1000 - Abs(newSize - o.preferredSubsetSize)
                               + availableSpace
             IN IF availableSpace >= familyLen /\ totalScore > b.score
                THEN ScanBestSubset(o, ss, familyLen, k + 1,
                                    [index |-> k - 1, score |-> totalScore])
                ELSE ScanBestSubset(o, ss, familyLen, k + 1, b))
leftoverBestSubsetIndex(o, ss, familyLen) ==
    ScanBestSubset(o, ss, familyLen, 1, [index |-> 0, score |-> -1])

\* one pass of the leftover loop of solveGreedy
GreedyLeftover ==
    /\ pc = "greedy_leftover"
    /\ unassignedFamilies # <<>>
    /\ \E family \in { families[Head(unassignedFamilies)] } :
       \E scanned \in { leftoverBestSubsetIndex(solver.options, subsets, Len(family)) } :
          IF scanned + 1 > Len(subsets)
          THEN \* subsets[bestSubsetIndex] is undefined: TypeError on .length
               /\ Raise("TypeError")
               /\ UNCHANGED <<subsets, greedyVars>>
          ELSE LET maxAvailableSpace ==
                       solver.options.maxSubsetSize - Len(subsets[scanned + 1])
                   opened == maxAvailableSpace < Len(family)
                             /\ currentSubset < solver.maxSubsets
                   bestSubsetIndex == IF opened THEN currentSubset ELSE scanned
               IN /\ subsets' = [subsets EXCEPT ![bestSubsetIndex + 1] = @ \o family]
                  /\ solution' = solution \cup
                         { <<family[m], bestSubsetIndex>> : m \in DOMAIN family }
                  /\ currentSubset' = IF opened THEN currentSubset + 1 ELSE currentSubset
                  /\ unassignedFamilies' = Tail(unassignedFamilies)
                  /\ UNCHANGED <<canAddMore, pc, running, results, outcome>>
    /\ UNCHANGED <<inputVars, callerVars, random, localVars, clusterVars>>

\* a solveMIP that keeps the subsets left empty
solutionToAllSubsets(sol, n, maxSubsets) ==
    [ j \in 1..maxSubsets |-> SelectSeq([i \in 1..n |-> i], LAMBDA i : <<i, j - 1>> \in sol) ]

\* a solveMIP that, called again, reads the subsets from the last to the first
solutionToSubsetsFromLast(sol, n, maxSubsets) ==
    LET all == [ j \in 1..maxSubsets |->
                   SelectSeq([i \in 1..n |-> i],
                             LAMBDA i : <<i, (IF firstRun = NoOutcome THEN j
                                              ELSE maxSubsets + 1 - j) - 1>> \in sol) ]
    IN SelectSeq(all, LAMBDA subset : Len(subset) > 0)

\* solveMIP after solver.solve(): the variables set to 1, read in variable order
\* (competitor-major) into Array(opts.maxSubsets), empty subsets dropped
solutionToSubsets(sol, n, maxSubsets) ==
    LET all == [ j \in 1..maxSubsets |->
                   SelectSeq([i \in 1..n |-> i], LAMBDA i : <<i, j - 1>> \in sol) ]
    IN SelectSeq(all, LAMBDA subset : Len(subset) > 0)

GreedyFinish ==
    /\ pc = "greedy_leftover"
    /\ unassignedFamilies = <<>>
    /\ Return(createAlgorithmResult(competitors,
                  solutionToSubsets(solution, NumCompetitors, opts.maxSubsets),
                  opts, AlgorithmName("mip")))
    /\ UNCHANGED <<inputVars, callerVars, random, localVars, subsets, greedyVars, clusterVars>>

(***************************************************************************)
(* Clustering engine (algorithms/clustering).  A feature vector is         *)
(* [num, den]: coordinate i has the exact value num[i] / den.              *)
(***************************************************************************)
\* common denominator of the family means (families have 1..MaxFamilySize members)
FeatureScale == 6

AttrColumn(cs, attr) == UniqueInOrder([i \in DOMAIN cs |-> cs[i][attr]])
OneHot(values, v) ==
    Bind(values, LAMBDA vals : Tuple([k \in DOMAIN vals |-> IF vals[k] = v THEN 1 ELSE 0]))

encodeCompetitor(c, allCompetitors) ==
    OneHot(AttrColumn(allCompetitors, "gender"), c.gender)
    \o OneHot(AttrColumn(allCompetitors, "ageCategory"), c.ageCategory)
    \o OneHot(AttrColumn(allCompetitors, "equipmentClass"), c.equipmentClass)
    \o << IF c.guardianId # 0 THEN 1 ELSE 0 >>

\* featureWeights of solveClustering: 0-based first index of each segment
featureBoundaries(cs) ==
    [ genderStart |-> 0,
      ageStart |-> Len(AttrColumn(cs, "gender")),
      equipmentStart |-> Len(AttrColumn(cs, "gender")) + Len(AttrColumn(cs, "ageCategory")) ]

\* coordinate-wise sum of the vectors vs[1..Len(vs)], each of dimension dim
SumVectors(vs, dim) ==
    Bind(vs, LAMBDA ws : Tuple([ k \in 1..dim |-> SumSeq([m \in DOMAIN ws |-> ws[m][k]]) ]))

\* createFamilyFeatures: the mean of the members' encodings
familyFeatureVector(family, cs) ==
    Bind(Tuple([m \in DOMAIN family |-> encodeCompetitor(cs[family[m]], cs)]),
         LAMBDA encoded :
             [ num |-> SumVectors(encoded, Len(encoded[1])), den |-> Len(family) ])
createFamilyFeatures(fams, cs) ==
    Tuple([ f \in DOMAIN fams |-> familyFeatureVector(fams[f], cs) ])

\* calculateDistance(u, v) = 0, i.e. the vectors are equal
SameVector(u, v) ==
    \A k \in DOMAIN u.num : u.num[k] * v.den = v.num[k] * u.den

\* the weight calculateWeightedDistance gives coordinate i (0-based)
coordinateWeight(i, o, fw) ==
    IF i >= fw.genderStart /\ i < fw.ageStart THEN o.genderWeight
    ELSE IF i >= fw.ageStart /\ i < fw.equipmentStart THEN o.ageCategoryWeight
    ELSE IF i >= fw.equipmentStart THEN o.equipmentClassWeight
    ELSE 1

\* calculateWeightedDistance(u, v)^2 * (u.den * v.den)^2
weightedSquare(u, v, o, fw) ==
    SumSeq([ k \in DOMAIN u.num |->
               coordinateWeight(k - 1, o, fw)
               * (u.num[k] * v.den - v.num[k] * u.den) * (u.num[k] * v.den - v.num[k] * u.den) ])

\* calculateWeightedDistance(u, a) < calculateWeightedDistance(u, b)
closerThan(u, a, b, o, fw) ==
    Bind2(weightedSquare(u, a, o, fw), weightedSquare(u, b, o, fw), LAMBDA toA, toB :
        toA * b.den * b.den < toB * a.den * a.den)

\* the scan of assignToClusters for one family: 1-based index of the first
\* center at the smallest weighted distance
RECURSIVE ScanNearest(_, _, _, _, _, _)
ScanNearest(u, cts, o, fw, i, best) ==
    IF i > Len(cts) THEN best
    ELSE IF closerThan(u, cts[i].features, cts[best].features, o, fw)
         THEN ScanNearest(u, cts, o, fw, i + 1, i)
         ELSE ScanNearest(u, cts, o, fw, i + 1, best)
nearestCenter(u, cts, o, fw) == ScanNearest(u, cts, o, fw, 2, 1)

\* assignToClusters: every center's members in family order
assignToClusters(ff, cts, o, fw) ==
    Bind2(fw, Tuple([f \in DOMAIN ff |-> f]), LAMBDA boundaries, all :
        Bind(Tuple([f \in DOMAIN ff |-> nearestCenter(ff[f], cts, o, boundaries)]),
             LAMBDA bestCluster :
                 Tuple([ c \in DOMAIN cts |->
                           [ cts[c] EXCEPT !.members =
                               SelectSeq(all, LAMBDA f : bestCluster[f] = c) ] ])))

\* the centroid of a center's members
centroid(members, ff) ==
    Bind2(members, Len(ff[members[1]].num), LAMBDA ms, dim :
        [ num |-> SumVectors(
                      Tuple([ m \in DOMAIN ms |->
                          Tuple([ k \in 1..dim |->
                              ff[ms[m]].num[k] * (FeatureScale \div ff[ms[m]].den) ]) ]),
                      dim),
          den |-> FeatureScale * Len(ms) ])

\* Math.abs(a - b) > 1e-6 for some coordinate
moved(old, new) ==
    \E k \in DOMAIN old.num :
        Abs(old.num[k] * new.den - new.num[k] * old.den) * 1000000 > old.den * new.den

\* updateClusterCenters: <<the new centers, changed>>
updateClusterCenters(cts, ff) ==
    Bind(cts, LAMBDA old :
        Bind(Tuple([ c \in DOMAIN old |->
                       IF old[c].members = <<>> THEN old[c]
                       ELSE [ old[c] EXCEPT !.features = centroid(old[c].members, ff) ] ]),
             LAMBDA new :
                 << new, \E c \in DOMAIN old : old[c].members # <<>>
                                               /\ moved(old[c].features, new[c].features) >>))

\* the number of clusters solveClustering asks for
numClustersOf(n, numFamilies, o) ==
    LET minClusters == CeilDiv(n, o.maxSubsetSize)
        maxClusters == Min(o.maxSubsets, FloorDiv(n, o.minSubsetSize))
        preferredClusters == RoundDiv(n, o.preferredSubsetSize)
    IN Min(maxClusters, Max(minClusters, Min(preferredClusters, numFamilies)))

\* the indices a k-means++ draw can select: a family at distance 0 from every
\* center has an empty slice of the cumulative sum, except that a draw of
\* exactly 0 selects index 0 whatever its distance
selectableFamilies(ff, cts) ==
    {1} \cup { f \in DOMAIN ff : \A c \in DOMAIN cts : ~SameVector(ff[f], cts[c].features) }

\* solveClustering up to the choice of the first center: Math.random() picks
\* any family
ClusteringStart ==
    /\ pc = "start" /\ running = "clustering"
    /\ IF NumCompetitors = 0
       THEN /\ Return(handleEmptyDataset(options, AlgorithmName("clustering")))
            /\ UNCHANGED <<localVars, subsets, clusterVars, random>>
       ELSE \E o \in { validateAndSanitizeOptions(options, NumCompetitors) } :
            \E fams \in { createGuardianFamilies(competitors) } :
            \E ff \in { createFamilyFeatures(fams, competitors) } :
               \E first \in Draws("first center", DOMAIN ff) :
                /\ random' = afterDraw("first center", first)
                /\ opts' = o
                /\ families' = fams
                /\ familyFeatures' = ff
                /\ numClusters' = numClustersOf(NumCompetitors, Len(fams), o)
                /\ centers' = << [features |-> ff[first], members |-> <<>>] >>
                /\ iteration' = 0
                /\ classifyIdx' = 1
                /\ validCenters' = <<>>
                /\ redistributeFamilies' = <<>>
                /\ sortedFamilies' = <<>>
                /\ targetSize' = 0
                /\ cleanupIterations' = <<0, 0>>
                /\ subsets' = <<>>
                /\ pc' = "init_centers"
                /\ UNCHANGED <<solver, running, results, outcome>>
    /\ options' = callersOptionsAfter(options,
                                      validateAndSanitizeOptions(options, NumCompetitors))
    /\ UNCHANGED <<competitors, callerVars, greedyVars>>

\* initializeClusterCenters: one pass of the k-means++ loop, or its exit
InitializeClusterCenters ==
    /\ pc = "init_centers"
    /\ IF Len(centers) < numClusters
       THEN \E selectedIndex \in Draws("k-means++",
                                        selectableFamilies(familyFeatures, centers)) :
               /\ random' = afterDraw("k-means++", selectedIndex)
               /\ centers' = Append(centers, [features |-> familyFeatures[selectedIndex],
                                              members |-> <<>>])
               /\ pc' = pc
       ELSE /\ centers' = centers
            /\ pc' = "kmeans"
            /\ random' = random
    /\ UNCHANGED <<inputVars, callerVars, localVars, running, results, outcome, subsets, greedyVars,
                   familyFeatures, numClusters, iteration, classifyIdx, validCenters,
                   redistributeFamilies, sortedFamilies, targetSize, cleanupIterations>>

\* one pass of the k-means loop: assign, update, and the convergence test
KMeansIteration ==
    /\ pc = "kmeans"
    /\ IF iteration < maxIterations
       THEN \E updated \in { updateClusterCenters(
                                   assignToClusters(familyFeatures, centers, opts,
                                                    featureBoundaries(competitors)),
                                   familyFeatures) } :
               /\ centers' = updated[1]
               /\ iteration' = iteration + 1
               /\ pc' = IF updated[2] THEN "kmeans" ELSE "classify"
       ELSE /\ pc' = "classify"
            /\ UNCHANGED <<centers, iteration>>
    /\ UNCHANGED <<inputVars, callerVars, random, localVars, running, results, outcome, subsets, greedyVars,
                   familyFeatures, numClusters, classifyIdx, validCenters,
                   redistributeFamilies, sortedFamilies, targetSize, cleanupIterations>>

(***************************************************************************)
(* Constraint repair (algorithms/clustering: adjustClusterSizes and the    *)
(* passes of solveClustering that follow it).  A cluster is the sequence   *)
(* of the indices of its member families.                                  *)
(***************************************************************************)
\* the draws of one Fisher-Yates shuffle of n elements: draws[i] is
\* Math.floor(Math.random() * (i + 1)) of loop index i
DrawVectors(n) ==
    { d \in [1..(n - 1) -> 0..(n - 1)] : \A i \in 1..(n - 1) : d[i] <= i }

Swap(a, i, j) == Bind(a, LAMBDA b : [b EXCEPT ![i] = b[j], ![j] = b[i]])

\* utils: shuffle, for loop index i (0-based) down to 1
RECURSIVE ShuffleFrom(_, _, _)
ShuffleFrom(result, draws, i) ==
    IF i < 1 THEN result
    ELSE ShuffleFrom(Swap(result, i + 1, draws[i] + 1), draws, i - 1)
shuffle(array, draws) == ShuffleFrom(array, draws, Len(array) - 1)

\* total competitors of a cluster
clusterSize(members, fams) == SumSeq([m \in DOMAIN members |-> Len(fams[members[m]])])

\* the bucket loop over the shuffled families of an oversized cluster:
\* acc = [valid, redistribute, currentCluster, currentSize]
RECURSIVE SplitLoop(_, _, _, _, _)
SplitLoop(shuffled, fams, o, i, state) ==
    Bind(state, LAMBDA acc :
        IF i > Len(shuffled)
        THEN IF acc.currentCluster = <<>> THEN acc
             ELSE IF acc.currentSize >= o.minSubsetSize
                  THEN [acc EXCEPT !.valid = Append(@, acc.currentCluster)]
                  ELSE [acc EXCEPT !.redistribute = @ \o acc.currentCluster]
        ELSE LET family == shuffled[i]
                 familySize == Len(fams[family])
             IN IF acc.currentSize + familySize > o.maxSubsetSize
                THEN SplitLoop(shuffled, fams, o, i + 1,
                         [ valid |-> IF acc.currentSize >= o.minSubsetSize
                                     THEN Append(acc.valid, acc.currentCluster)
                                     ELSE acc.valid,
                           redistribute |-> IF acc.currentSize >= o.minSubsetSize
                                            THEN acc.redistribute
                                            ELSE acc.redistribute \o acc.currentCluster,
                           currentCluster |-> <<family>>,
                           currentSize |-> familySize ])
                ELSE SplitLoop(shuffled, fams, o, i + 1,
                         [ acc EXCEPT !.currentCluster = Append(@, family),
                                      !.currentSize = @ + familySize ]))

\* one pass of the first loop of adjustClusterSizes over a center's members:
\* [valid, redistribute] with what the pass appends to validCenters and to
\* redistributeFamilies
classifyCluster(members, fams, o, draws) ==
    Bind(clusterSize(members, fams), LAMBDA totalCompetitors :
        IF members = <<>> THEN [valid |-> <<>>, redistribute |-> <<>>]
        ELSE IF totalCompetitors <= o.maxSubsetSize /\ totalCompetitors >= o.minSubsetSize
        THEN [valid |-> <<members>>, redistribute |-> <<>>]
        ELSE IF totalCompetitors > o.maxSubsetSize
        THEN Bind2(shuffle(members, draws),
                   [ valid |-> <<>>, redistribute |-> <<>>,
                     currentCluster |-> <<>>, currentSize |-> 0 ],
                   LAMBDA shuffledFamilies, empty :
                       Bind(SplitLoop(shuffledFamilies, fams, o, 1, empty), LAMBDA acc :
                           [valid |-> acc.valid, redistribute |-> acc.redistribute]))
        ELSE [valid |-> <<>>, redistribute |-> members])

\* whether the pass shuffles (and so draws random numbers)
isOversized(members, fams, o) ==
    members # <<>> /\ clusterSize(members, fams) > o.maxSubsetSize

ClassifyCluster ==
    /\ pc = "classify"
    /\ IF classifyIdx <= Len(centers)
       THEN LET members == centers[classifyIdx].members
            IN \E draws \in IF isOversized(members, families, opts)
                             THEN Draws("shuffle", DrawVectors(Len(members)))
                             ELSE { <<>> } :
                 \E r \in { classifyCluster(members, families, opts, draws) } :
                    /\ random' = IF isOversized(members, families, opts)
                                  THEN afterDraw("shuffle", draws) ELSE random
                    /\ validCenters' = validCenters \o r.valid
                    /\ redistributeFamilies' = redistributeFamilies \o r.redistribute
                    /\ classifyIdx' = classifyIdx + 1
                    /\ pc' = pc
       ELSE /\ pc' = "redistribute"
            /\ UNCHANGED <<validCenters, redistributeFamilies, classifyIdx, random>>
    /\ UNCHANGED <<inputVars, callerVars, localVars, running, results, outcome, subsets, greedyVars,
                   familyFeatures, numClusters, centers, iteration, sortedFamilies,
                   targetSize, cleanupIterations>>

\* effectiveMaxSubsets = maxAllowedClusters || options.maxSubsets
effectiveMaxSubsets(maxAllowedClusters, o) ==
    IF maxAllowedClusters # 0 THEN maxAllowedClusters ELSE o.maxSubsets

\* the largest index i of rf whose family fits beside currentSize, 0 if none
RECURSIVE LastFitting(_, _, _, _, _)
LastFitting(rf, fams, o, size, i) ==
    Bind(size, LAMBDA currentSize :
        IF i < 1 THEN 0
        ELSE IF currentSize + Len(fams[rf[i]]) <= o.maxSubsetSize THEN i
        ELSE LastFitting(rf, fams, o, currentSize, i - 1))

\* the for loop over validCenters: at most one family per cluster
RECURSIVE PlacementPass(_, _, _, _)
PlacementPass(state, fams, o, c) ==
    Bind(state, LAMBDA st :
        IF c > Len(st.validCenters) \/ st.redistributeFamilies = <<>> THEN st
        ELSE Bind(LastFitting(st.redistributeFamilies, fams, o,
                              clusterSize(st.validCenters[c], fams),
                              Len(st.redistributeFamilies)),
                  LAMBDA i :
                      IF i = 0 THEN PlacementPass(st, fams, o, c + 1)
                      ELSE PlacementPass(
                               [ validCenters |->
                                     [st.validCenters EXCEPT
                                        ![c] = Append(@, st.redistributeFamilies[i])],
                                 redistributeFamilies |->
                                     RemoveAt(st.redistributeFamilies, i),
                                 placed |-> TRUE ], fams, o, c + 1)))

\* the fill loop of a new cluster: <<newCluster, what is left of rf>>
RECURSIVE FillNewCluster(_, _, _, _, _)
FillNewCluster(remaining, fams, o, cluster, size) ==
    Bind3(remaining, cluster, size, LAMBDA rf, newCluster, newClusterSize :
        IF rf = <<>> \/ newClusterSize >= o.preferredSubsetSize THEN <<newCluster, rf>>
        ELSE LET family == Head(rf)
             IN IF newClusterSize + Len(fams[family]) <= o.maxSubsetSize
                THEN FillNewCluster(Tail(rf), fams, o, Append(newCluster, family),
                                    newClusterSize + Len(fams[family]))
                ELSE <<newCluster, rf>>)

\* index of the first cluster of the smallest size
smallestCluster(vc, fams) ==
    CHOOSE c \in DOMAIN vc :
        /\ \A d \in DOMAIN vc : clusterSize(vc[c], fams) <= clusterSize(vc[d], fams)
        /\ \A d \in 1..(c - 1) : clusterSize(vc[d], fams) > clusterSize(vc[c], fams)

\* the forcing loop: every remaining family goes to the smallest cluster
RECURSIVE ForceAll(_, _, _)
ForceAll(valid, remaining, fams) ==
    Bind2(valid, remaining, LAMBDA vc, rf :
        IF rf = <<>> THEN vc
        ELSE ForceAll([vc EXCEPT ![smallestCluster(vc, fams)] = Append(@, Head(rf))],
                      Tail(rf), fams))

\* one pass of the while loop of adjustClusterSizes:
\* [validCenters, redistributeFamilies, error]
redistributePass(vc, rf, fams, o, effectiveMax) ==
    Bind(PlacementPass([validCenters |-> vc, redistributeFamilies |-> rf,
                        placed |-> FALSE], fams, o, 1),
         LAMBDA placedSt :
    Bind(FillNewCluster(placedSt.redistributeFamilies, fams, o, <<>>, 0),
         LAMBDA filled :
        LET vc1 == placedSt.validCenters
            rf1 == placedSt.redistributeFamilies
            newCluster == filled[1]
            rf2 == filled[2]
            vc2 == IF newCluster # <<>> THEN Append(vc1, newCluster) ELSE vc1
        IN IF ~placedSt.placed /\ rf1 # <<>> /\ Len(vc1) < effectiveMax
           THEN IF rf2 # <<>> /\ (newCluster = <<>> \/ Len(vc2) >= effectiveMax)
                THEN IF vc2 = <<>>
                     THEN \* validCenters[0] is undefined: TypeError on .members
                          [validCenters |-> vc2, redistributeFamilies |-> rf2,
                           error |-> TRUE]
                     ELSE [validCenters |-> ForceAll(vc2, rf2, fams),
                           redistributeFamilies |-> <<>>, error |-> FALSE]
                ELSE [validCenters |-> vc2, redistributeFamilies |-> rf2, error |-> FALSE]
           ELSE [validCenters |-> vc1, redistributeFamilies |-> rf1, error |-> FALSE]))

\* whether a pass forces families into the smallest cluster
redistributeForces(vc, rf, fams, o, effectiveMax) ==
    Bind(PlacementPass([validCenters |-> vc, redistributeFamilies |-> rf,
                        placed |-> FALSE], fams, o, 1),
         LAMBDA placedSt :
    Bind(FillNewCluster(placedSt.redistributeFamilies, fams, o, <<>>, 0),
         LAMBDA filled :
        LET vc2 == IF filled[1] # <<>> THEN Append(placedSt.validCenters, filled[1])
                   ELSE placedSt.validCenters
        IN /\ ~placedSt.placed /\ placedSt.redistributeFamilies # <<>>
           /\ Len(placedSt.validCenters) < effectiveMax
           /\ filled[2] # <<>> /\ (filled[1] = <<>> \/ Len(vc2) >= effectiveMax)))

\* the flattening of the clusters into subsets of competitors
clustersToSubsets(vc, fams) ==
    Tuple([ c \in DOMAIN vc |-> FlattenSeq([m \in DOMAIN vc[c] |-> fams[vc[c][m]]]) ])

\* one pass of the redistribution loop, or the return of adjustClusterSizes
\* and the flattening that follows it
Redistribute ==
    /\ pc = "redistribute"
    /\ IF redistributeFamilies # <<>>
       THEN \E r \in { redistributePass(validCenters, redistributeFamilies, families, opts,
                                        effectiveMaxSubsets(numClusters, opts)) } :
               IF r.error
               THEN /\ Raise("TypeError")
                    /\ UNCHANGED <<validCenters, redistributeFamilies, subsets>>
               ELSE /\ validCenters' = r.validCenters
                    /\ redistributeFamilies' = r.redistributeFamilies
                    /\ UNCHANGED <<pc, running, results, outcome, subsets>>
       ELSE /\ subsets' = clustersToSubsets(validCenters, families)
            /\ pc' = "merge"
            /\ UNCHANGED <<validCenters, redistributeFamilies, running, results, outcome>>
    /\ UNCHANGED <<inputVars, callerVars, random, localVars, greedyVars, familyFeatures, numClusters, centers,
                   iteration, classifyIdx, sortedFamilies, targetSize, cleanupIterations>>

\* the score the merge loop gives a pair of combined size combinedSize
mergeScore(combinedSize, o) ==
    IF combinedSize <= o.maxSubsetSize THEN 1000 - combinedSize
    ELSE IF combinedSize <= o.maxSubsetSize + 1 THEN 50 - combinedSize
    ELSE 10 - combinedSize

\* bestMerge: the first pair (i, j), i < j, of the greatest score above -1,
\* 1-based; <<0, 0>> stands for null
bestMerge(ss, o) ==
    LET pairs == { p \in (DOMAIN ss) \X (DOMAIN ss) : p[1] < p[2] }
        score(p) == mergeScore(Len(ss[p[1]]) + Len(ss[p[2]]), o)
        before(q, p) == q[1] < p[1] \/ (q[1] = p[1] /\ q[2] < p[2])
        best == { p \in pairs :
                    /\ score(p) > -1
                    /\ \A q \in pairs : score(q) <= score(p)
                    /\ \A q \in pairs : before(q, p) => score(q) < score(p) }
    IN IF best = {} THEN <<0, 0>> ELSE CHOOSE p \in best : TRUE

\* the fallback scan for the two smallest subsets: 0-based <<smallestIdx1, smallestIdx2>>
RECURSIVE TwoSmallest(_, _, _, _)
TwoSmallest(ss, i, smallestIdx1, smallestIdx2) ==
    IF i >= Len(ss) THEN <<smallestIdx1, smallestIdx2>>
    ELSE IF Len(ss[i + 1]) < Len(ss[smallestIdx1 + 1])
         THEN TwoSmallest(ss, i + 1, i, smallestIdx1)
         ELSE IF i # smallestIdx1 /\ Len(ss[i + 1]) < Len(ss[smallestIdx2 + 1])
              THEN TwoSmallest(ss, i + 1, smallestIdx1, i)
              ELSE TwoSmallest(ss, i + 1, smallestIdx1, smallestIdx2)

\* a merge that moves one member at a time, and so can leave a family split
\* between the two subsets
mergeMemberwise(ss, i, j) ==
    IF Len(ss[j]) <= 1 THEN RemoveAt([ss EXCEPT ![i] = @ \o ss[j]], j)
    ELSE [ss EXCEPT ![i] = Append(@, Head(ss[j])), ![j] = Tail(@)]

\* subsets[i].push(...subsets[j]); subsets.splice(j, 1), 1-based
mergeInto(ss, i, j) == RemoveAt([ss EXCEPT ![i] = @ \o ss[j]], j)

\* a test that finds a violation in any list of subsets
alwaysViolated(ss, o) == TRUE

\* whether some subset breaks a size bound
hasSizeViolation(ss, o) ==
    \E i \in DOMAIN ss : Len(ss[i]) > o.maxSubsetSize \/ Len(ss[i]) < o.minSubsetSize

\* a merge loop that stops one subset too early
exceedsCapByTwo(ss, o) == Len(ss) > o.maxSubsets + 1

\* the test of the merge loop
exceedsCap(ss, o) == Len(ss) > o.maxSubsets

\* one pass of the loop that merges subsets above opts.maxSubsets, or its exit
MergeExcess ==
    /\ pc = "merge"
    /\ IF exceedsCap(subsets, opts)
       THEN LET bm == bestMerge(subsets, opts)
            IN IF bm # <<0, 0>>
               THEN /\ subsets' = mergeInto(subsets, bm[1], bm[2])
                    /\ UNCHANGED <<pc, running, results, outcome>>
               ELSE IF Len(subsets) < 2
               THEN \* subsets[0] or subsets[1] is undefined: TypeError
                    /\ Raise("TypeError")
                    /\ UNCHANGED subsets
               ELSE LET two == TwoSmallest(subsets, 0, 0, 1)
                    IN /\ subsets' = mergeInto(subsets, two[1] + 1, two[2] + 1)
                       /\ UNCHANGED <<pc, running, results, outcome>>
       ELSE /\ pc' = "rebalance"
            /\ UNCHANGED <<subsets, running, results, outcome>>
    /\ UNCHANGED <<inputVars, callerVars, random, localVars, greedyVars, clusterVars>>

\* Array.prototype.sort by family size, largest first (the sort is stable)
sortFamiliesBySize(fams) ==
    LET sizeClass(k) == SelectSeq([f \in DOMAIN fams |-> f], LAMBDA f : Len(fams[f]) = k)
        RECURSIVE down(_)
        down(k) == IF k < 1 THEN <<>> ELSE sizeClass(k) \o down(k - 1)
    IN down(Len(FlattenSeq(fams)))

\* the scan for the subset whose new size is closest to targetSize: 0-based, -1 if none
RECURSIVE ScanRebalance(_, _, _, _, _, _, _)
ScanRebalance(ss, o, familyLen, target, i, bestSubsetIndex, bestScore) ==
    IF i >= Min(Len(ss), o.maxSubsets) THEN bestSubsetIndex
    ELSE LET newSize == Len(ss[i + 1]) + familyLen
             score == 1000 - Abs(newSize - target)
         IN IF newSize <= o.maxSubsetSize /\ score > bestScore
            THEN ScanRebalance(ss, o, familyLen, target, i + 1, i, score)
            ELSE ScanRebalance(ss, o, familyLen, target, i + 1, bestSubsetIndex, bestScore)

\* 1-based index of the first subset of the smallest length
smallestSubset(ss) ==
    CHOOSE i \in DOMAIN ss :
        /\ \A j \in DOMAIN ss : Len(ss[i]) <= Len(ss[j])
        /\ \A j \in 1..(i - 1) : Len(ss[j]) > Len(ss[i])

\* the placement of one family by the global rebalance
placeFamily(ss, o, family, target) ==
    LET scanned == ScanRebalance(ss, o, Len(family), target, 0, -1, -1)
    IN IF scanned # -1 THEN [ss EXCEPT ![scanned + 1] = @ \o family]
       ELSE IF Len(ss) < o.maxSubsets THEN Append(ss, family)
       ELSE [ss EXCEPT ![smallestSubset(ss)] = @ \o family]

\* the test that opens the global rebalance: the subsets are cleared and the
\* families queued, largest first
GlobalRebalance ==
    /\ pc = "rebalance"
    /\ IF Len(subsets) = opts.maxSubsets /\ hasSizeViolation(subsets, opts)
       THEN /\ targetSize' = FloorDiv(Len(FlattenSeq(subsets)), opts.maxSubsets)
            /\ sortedFamilies' = sortFamiliesBySize(families)
            /\ subsets' = <<>>
            /\ pc' = "rebalance_place"
            /\ UNCHANGED cleanupIterations
       ELSE /\ pc' = "cleanup"
            /\ cleanupIterations' = <<0, Len(subsets)>>
            /\ UNCHANGED <<subsets, sortedFamilies, targetSize>>
    /\ UNCHANGED <<inputVars, callerVars, random, localVars, running, results, outcome, greedyVars,
                   familyFeatures, numClusters, centers, iteration, classifyIdx,
                   validCenters, redistributeFamilies>>

\* one pass of the bin-packing loop of the global rebalance, or its exit
RebalancePlace ==
    /\ pc = "rebalance_place"
    /\ IF sortedFamilies # <<>>
       THEN /\ subsets' = placeFamily(subsets, opts, families[Head(sortedFamilies)], targetSize)
            /\ sortedFamilies' = Tail(sortedFamilies)
            /\ UNCHANGED <<pc, cleanupIterations>>
       ELSE /\ pc' = "cleanup"
            /\ cleanupIterations' = <<0, Len(subsets)>>
            /\ UNCHANGED <<subsets, sortedFamilies>>
    /\ UNCHANGED <<inputVars, callerVars, random, localVars, running, results, outcome, greedyVars,
                   familyFeatures, numClusters, centers, iteration, classifyIdx,
                   validCenters, redistributeFamilies, targetSize>>

\* finalUndersized: the 1-based indices of the subsets below the minimum size
finalUndersized(ss, o) ==
    SelectSeq([i \in DOMAIN ss |-> i], LAMBDA i : Len(ss[i]) < o.minSubsetSize)

\* smallestIdx: the first undersized subset of the smallest length, 1-based
smallestUndersizedIdx(ss, o) ==
    LET und == finalUndersized(ss, o)
    IN CHOOSE i \in Range(und) :
           /\ \A j \in Range(und) : Len(ss[i]) <= Len(ss[j])
           /\ \A j \in Range(und) : j < i => Len(ss[j]) > Len(ss[i])

\* the scan for the smallest subset that can take the undersized one:
\* 0-based, -1 if none (best = 0-based index, bestSize = -1 for Infinity)
RECURSIVE ScanAccommodating(_, _, _, _, _, _)
ScanAccommodating(ss, o, smallestIdx, i, best, bestSize) ==
    IF i >= Len(ss) THEN best
    ELSE IF i # smallestIdx
            /\ Len(ss[i + 1]) + Len(ss[smallestIdx + 1]) <= o.maxSubsetSize
            /\ (bestSize = -1 \/ Len(ss[i + 1]) < bestSize)
         THEN ScanAccommodating(ss, o, smallestIdx, i + 1, i, Len(ss[i + 1]))
         ELSE ScanAccommodating(ss, o, smallestIdx, i + 1, best, bestSize)

\* the scan that follows when nothing accommodates: starts at index 0
RECURSIVE ScanAnySmallest(_, _, _, _)
ScanAnySmallest(ss, smallestIdx, i, best) ==
    IF i >= Len(ss) THEN best
    ELSE IF i # smallestIdx /\ Len(ss[i + 1]) < Len(ss[best + 1])
         THEN ScanAnySmallest(ss, smallestIdx, i + 1, i)
         ELSE ScanAnySmallest(ss, smallestIdx, i + 1, best)

\* bestMergeIdx of the cleanup, 0-based
cleanupMergeIdx(ss, o, smallestIdx) ==
    LET accommodating == ScanAccommodating(ss, o, smallestIdx, 0, -1, -1)
    IN IF accommodating # -1 THEN accommodating
       ELSE ScanAnySmallest(ss, smallestIdx, 1, 0)

\* a cleanup that removes the undersized subset without moving its members
cleanupDrop(ss, bestMergeIdx, smallestIdx) == RemoveAt(ss, smallestIdx + 1)

\* subsets[bestMergeIdx].push(...smallestUndersized); subsets.splice(smallestIdx, 1)
cleanupMerge(ss, bestMergeIdx, smallestIdx) ==
    RemoveAt([ss EXCEPT ![bestMergeIdx + 1] = @ \o ss[smallestIdx + 1]], smallestIdx + 1)

\* one pass of the final cleanup loop, or its exit; cleanupIterations is
\* <<cleanupIterations, maxCleanupIterations>>
FinalCleanup ==
    /\ pc = "cleanup"
    /\ IF finalUndersized(subsets, opts) # <<>> /\ cleanupIterations[1] < cleanupIterations[2]
       THEN LET smallestIdx == smallestUndersizedIdx(subsets, opts) - 1
                bestMergeIdx == cleanupMergeIdx(subsets, opts, smallestIdx)
            IN /\ cleanupIterations' = [cleanupIterations EXCEPT ![1] = @ + 1]
               /\ IF bestMergeIdx # -1 /\ bestMergeIdx # smallestIdx
                  THEN /\ subsets' = cleanupMerge(subsets, bestMergeIdx, smallestIdx)
                       /\ pc' = pc
                  ELSE /\ subsets' = subsets
                       /\ pc' = "clustering_result"
       ELSE /\ pc' = "clustering_result"
            /\ UNCHANGED <<subsets, cleanupIterations>>
    /\ UNCHANGED <<inputVars, callerVars, random, localVars, running, results, outcome, greedyVars,
                   familyFeatures, numClusters, centers, iteration, classifyIdx,
                   validCenters, redistributeFamilies, sortedFamilies, targetSize>>

\* the return of solveClustering
ClusteringFinish ==
    /\ pc = "clustering_result"
    /\ Return(createAlgorithmResult(competitors, subsets, opts, AlgorithmName("clustering")))
    /\ UNCHANGED <<inputVars, callerVars, random, localVars, subsets, greedyVars, clusterVars>>

(***************************************************************************)
(* External solver path (algorithms/mip-solver-lp.ts).  HiGHS is a black   *)
(* box: it reports a non-Optimal status when the model has no solution     *)
(* and otherwise returns any assignment of the best objective value.       *)
(***************************************************************************)
\* the constructor of HiGHSMIPSolver: no sanitizing, only the small-event clamp
HiGHSMIPSolver(cs, o) ==
    LET thisOptions == IF Len(cs) <= SmallEventLimit
                       THEN [o EXCEPT !.maxSubsetSize = Min(o.maxSubsetSize, SmallEventMaxSize)]
                       ELSE o
    IN [ options |-> thisOptions,
         maxSubsets |-> Min(thisOptions.maxSubsets,
                            CeilDiv(Len(cs), thisOptions.minSubsetSize)) ]

\* calculateObjectiveCoefficient of a family (the same for every subset)
calculateObjectiveCoefficient(cs, family, o) ==
    LET uniqueEquipment == Cardinality(AttrValues(cs, family, "equipmentClass"))
    IN 10
       + (IF Len(family) = o.preferredSubsetSize THEN 5
          ELSE IF Len(family) <= o.preferredSubsetSize THEN 3 ELSE 0)
       + (IF Cardinality(AttrValues(cs, family, "gender")) > 1 THEN 2 * o.genderWeight ELSE 0)
       + (IF Cardinality(AttrValues(cs, family, "ageCategory")) = 1
          THEN 2 * o.ageCategoryWeight ELSE 0)
       + (IF o.groupByEquipmentClass /\ uniqueEquipment = 1 THEN 2 * o.equipmentClassWeight
          ELSE IF ~o.groupByEquipmentClass /\ uniqueEquipment > 1
               THEN o.equipmentClassWeight ELSE 0)

\* the members of slot j under x (x[i] = the slot of family i)
slotFamilies(x, fams, j) == SelectSeq([i \in DOMAIN fams |-> i], LAMBDA i : x[i] = j)
slotSize(x, fams, j) == clusterSize(slotFamilies(x, fams, j), fams)

\* createMIPModel: x satisfies the constraints with the indicator y[j] = 1
\* exactly on the slots in use
satisfiesModel(x, fams, slv) ==
    \A j \in 1..slv.maxSubsets :
        /\ slotSize(x, fams, j) <= slv.options.maxSubsetSize
        /\ slotFamilies(x, fams, j) # <<>> =>
               /\ Len(slotFamilies(x, fams, j)) <= slv.options.maxSubsetSize
               /\ slotSize(x, fams, j) >= slv.options.minSubsetSize

\* ten times the objective: the assignment costs minus 0.1 per slot in use
objectiveTenths(x, cs, fams, slv) ==
    10 * SumSeq([i \in DOMAIN fams |-> calculateObjectiveCoefficient(cs, fams[i], slv.options)])
    - Cardinality({ x[i] : i \in DOMAIN fams })

\* the assignments HiGHS can report as Optimal
optimalAssignments(cs, fams, slv) ==
    LET feasible == { x \in [DOMAIN fams -> 1..slv.maxSubsets] : satisfiesModel(x, fams, slv) }
    IN { x \in feasible :
           \A z \in feasible : objectiveTenths(z, cs, fams, slv) <= objectiveTenths(x, cs, fams, slv) }

\* the extraction of the subsets from the solution, empty ones removed
extractSubsets(x, fams, slv) ==
    SelectSeq([ j \in 1..slv.maxSubsets |->
                  FlattenSeq([m \in DOMAIN slotFamilies(x, fams, j) |->
                                 fams[slotFamilies(x, fams, j)[m]]]) ],
              LAMBDA subset : Len(subset) > 0)

\* HiGHSMIPSolver.validateSolution
validateSolution(cs, ss, slv) ==
    LET assigned == FlattenSeq(ss)
    IN /\ \A a, b \in DOMAIN assigned : a # b => assigned[a] # assigned[b]
       /\ Len(assigned) = Len(cs)
       /\ \A i \in DOMAIN ss : /\ Len(ss[i]) >= slv.options.minSubsetSize
                                /\ Len(ss[i]) <= slv.options.maxSubsetSize
       /\ \A i \in DOMAIN ss : \A m \in DOMAIN ss[i] :
              cs[ss[i][m]].guardianId # 0 => cs[ss[i][m]].guardianId \in Range(ss[i])

\* solveMIPWithLP up to the call of solver.solve()
LPStart ==
    /\ pc = "start" /\ running = "mip-lp"
    /\ LET o == MergeOptions(DEFAULT_OPTIONS, options)
       IN IF NumCompetitors = 0
          THEN /\ Return(createAlgorithmResult(competitors, <<>>, o, AlgorithmName("mip-lp")))
               /\ UNCHANGED <<localVars, subsets>>
          ELSE /\ opts' = o
               /\ families' = createGuardianFamilies(competitors)
               /\ solver' = HiGHSMIPSolver(competitors, o)
               /\ subsets' = <<>>
               /\ pc' = "lp_solve"
               /\ UNCHANGED <<running, results, outcome>>
    /\ options' = callersOptionsAfter(options, MergeOptions(DEFAULT_OPTIONS, options))
    /\ UNCHANGED <<competitors, callerVars, random, greedyVars, clusterVars>>

\* solver.solve() and the result of solveMIPWithLP
LPSolve ==
    /\ pc = "lp_solve"
    /\ LET optimal == optimalAssignments(competitors, families, solver)
       IN IF optimal = {}
          THEN \* solution.Status is not 'Optimal'
               /\ Raise("Error")
               /\ UNCHANGED subsets
          ELSE \E x \in optimal :
                 LET nonEmptySubsets == extractSubsets(x, families, solver)
                 IN IF ~validateSolution(competitors, nonEmptySubsets, solver)
                    THEN /\ Raise("Error")
                         /\ UNCHANGED subsets
                    ELSE /\ subsets' = nonEmptySubsets
                         /\ Return(createAlgorithmResult(competitors, nonEmptySubsets, opts,
                                                         AlgorithmName("mip-lp")))
    /\ UNCHANGED <<inputVars, callerVars, random, localVars, greedyVars, clusterVars>>

Next ==
    \/ Solve
    \/ GreedyStart
    \/ GreedyOuter
    \/ GreedyInner
    \/ GreedyLeftover
    \/ GreedyFinish
    \/ LPStart
    \/ LPSolve
    \/ ClusteringStart
    \/ InitializeClusterCenters
    \/ KMeansIteration
    \/ ClassifyCluster
    \/ Redistribute
    \/ MergeExcess
    \/ GlobalRebalance
    \/ RebalancePlace
    \/ FinalCleanup
    \/ ClusteringFinish

Spec == Init /\ [][Next]_vars

\* every statement of the call is eventually executed
SpecFair == Init /\ [][Next]_vars /\ WF_vars(Next)

(***************************************************************************)
(* Direct calls of the exported functions calculateScore,                  *)
(* createGuardianFamilies and validateAndSanitizeOptions.  A call is       *)
(* [fn, done, args] and, once it has returned, ret.                        *)
(***************************************************************************)
\* no call of solve() is under way
NoSolveCall ==
    /\ competitors = <<>>
    /\ options = NoOptions
    /\ FreshCall
    /\ random = Unseeded
    /\ firstRun = NoOutcome

\* a group of size d[1] whose first d[2] members have the first profile
ScoreGroups == { d \in (1..MaxScoreGroupSize) \X (0..MaxScoreGroupSize) : d[2] <= d[1] }
groupMembers(d) ==
    Tuple([ m \in 1..d[1] |->
        [ gender |-> (IF m <= d[2] THEN FirstProfile ELSE SecondProfile).gender,
          ageCategory |-> (IF m <= d[2] THEN FirstProfile ELSE SecondProfile).ageCategory,
          equipmentClass |->
              (IF m <= d[2] THEN FirstProfile ELSE SecondProfile).equipmentClass,
          guardianId |-> 0 ] ])

\* the groups ds as a competitor list and the subsets over it
groupsCompetitors(ds) == FlattenSeq(Tuple([g \in DOMAIN ds |-> groupMembers(ds[g])]))
groupsSubsets(ds) ==
    Tuple([ g \in DOMAIN ds |->
        Bind(SumSeq(Tuple([h \in 1..(g - 1) |-> ds[h][1]])), LAMBDA before :
            Tuple([ m \in 1..ds[g][1] |-> before + m ])) ])

\* the subsets in the order order, every subset reversed if reversed
permuteSubsets(ss, order, reversed) ==
    Tuple([ g \in DOMAIN ss |->
        IF reversed
        THEN Bind(ss[order[g]], LAMBDA subset :
                 Tuple([ m \in DOMAIN subset |-> subset[Len(subset) + 1 - m] ]))
        ELSE ss[order[g]] ])

ScoreOptionSets ==
    { NoOptions, [ groupByEquipmentClass |-> FALSE, genderWeight |-> 2 ] }

\* a call on up to MaxScoreGroups groups and on the same groups in another
\* order, their members as they are or reversed
InitScore ==
    /\ NoSolveCall
    /\ \E len \in 0..MaxScoreGroups : \E ds \in [1..len -> ScoreGroups] :
       \E cs \in { groupsCompetitors(ds) } : \E ss \in { groupsSubsets(ds) } :
       \E order \in Permutations(1..len) : \E reversed \in BOOLEAN :
       \E o \in ScoreOptionSets :
          call = [ fn |-> "calculateScore", done |-> FALSE,
                   args |-> [ competitors |-> cs, subsets |-> ss,
                              permuted |-> permuteSubsets(ss, order, reversed),
                              options |-> o ] ]

\* calculateScore called on the subsets and on the permuted subsets
CallCalculateScore ==
    /\ call.fn = "calculateScore" /\ ~call.done
    /\ call' = [ fn |-> call.fn, done |-> TRUE, args |-> call.args,
                 ret |-> [ original |-> calculateScore(call.args.competitors,
                                                       call.args.subsets,
                                                       call.args.options),
                           permuted |-> calculateScore(call.args.competitors,
                                                       call.args.permuted,
                                                       call.args.options) ] ]
    /\ UNCHANGED <<inputVars, localVars, pc, running, results, outcome, subsets,
                   greedyVars, clusterVars, random, firstRun>>

NextScore == CallCalculateScore

SpecScore == InitScore /\ [][NextScore]_vars

\* competitor lists with single-level guardian references to competitors
\* of the list, in any order
GuardianMaps(n) ==
    { g \in [1..n -> 0..n] : \A i \in 1..n : g[i] # 0 => g[i] # i /\ g[g[i]] = 0 }
GrouperInputs ==
    UNION { { [ i \in 1..n |->
                  [ gender |-> FirstProfile.gender,
                    ageCategory |-> FirstProfile.ageCategory,
                    equipmentClass |-> FirstProfile.equipmentClass,
                    guardianId |-> g[i] ] ] : g \in GuardianMaps(n) }
            : n \in 0..MaxGrouperN }

InitGrouper ==
    /\ NoSolveCall
    /\ \E cs \in GrouperInputs :
          call = [ fn |-> "createGuardianFamilies", done |-> FALSE,
                   args |-> [competitors |-> cs] ]

CallCreateGuardianFamilies ==
    /\ call.fn = "createGuardianFamilies" /\ ~call.done
    /\ call' = [ fn |-> call.fn, done |-> TRUE, args |-> call.args,
                 ret |-> createGuardianFamilies(call.args.competitors) ]
    /\ UNCHANGED <<inputVars, localVars, pc, running, results, outcome, subsets,
                   greedyVars, clusterVars, random, firstRun>>

NextGrouper == CallCreateGuardianFamilies

SpecGrouper == InitGrouper /\ [][NextGrouper]_vars

\* user configurations of the three size options, and entity counts on both
\* sides of the small-event limit
SizeOptionSets ==
    { [ minSubsetSize |-> a, maxSubsetSize |-> b, preferredSubsetSize |-> c ] :
        a \in 0..MaxSizeOption, b \in 0..MaxSizeOption, c \in 0..MaxSizeOption }
CompetitorCounts == { 0, 1, SmallEventLimit - 1, SmallEventLimit, SmallEventLimit + 1 }

InitSanitizer ==
    /\ NoSolveCall
    /\ \E o \in SizeOptionSets \cup UserOptionSets : \E n \in CompetitorCounts :
          call = [ fn |-> "validateAndSanitizeOptions", done |-> FALSE,
                   args |-> [options |-> o, competitorCount |-> n] ]

CallValidateAndSanitizeOptions ==
    /\ call.fn = "validateAndSanitizeOptions" /\ ~call.done
    /\ call' = [ fn |-> call.fn, done |-> TRUE, args |-> call.args,
                 ret |-> validateAndSanitizeOptions(call.args.options,
                                                    call.args.competitorCount) ]
    /\ UNCHANGED <<inputVars, localVars, pc, running, results, outcome, subsets,
                   greedyVars, clusterVars, random, firstRun>>

NextSanitizer == CallValidateAndSanitizeOptions

SpecSanitizer == InitSanitizer /\ [][NextSanitizer]_vars

(***************************************************************************)
(* The same call of solveMIP or solveClustering made twice, the second     *)
(* time with Math.random() started from the same seed.                     *)
(***************************************************************************)
InitRepeat ==
    /\ options \in { uo @@ ("algorithm" :> a) :
                        uo \in UserOptionSets, a \in {"mip", "clustering"} }
    /\ competitors \in CompetitorLists(MaxRepeatN)
    /\ FreshCall
    /\ random = Seeded
    /\ firstRun = NoOutcome
    /\ call = NoCall

\* the caller keeps what the first call gave and calls again
SolveAgain ==
    /\ pc = "done"
    /\ firstRun = NoOutcome
    /\ firstRun' = outcome
    /\ random' = [random EXCEPT !.replaying = TRUE, !.next = 1]
    /\ pc' = "solve"
    /\ running' = "none"
    /\ results' = <<>>
    /\ outcome' = NoOutcome
    /\ opts' = DEFAULT_OPTIONS
    /\ families' = <<>>
    /\ solver' = NoSolver
    /\ subsets' = <<>>
    /\ unassignedFamilies' = <<>>
    /\ currentSubset' = 0
    /\ canAddMore' = FALSE
    /\ solution' = {}
    /\ familyFeatures' = <<>>
    /\ numClusters' = 0
    /\ centers' = <<>>
    /\ iteration' = 0
    /\ classifyIdx' = 1
    /\ validCenters' = <<>>
    /\ redistributeFamilies' = <<>>
    /\ sortedFamilies' = <<>>
    /\ targetSize' = 0
    /\ cleanupIterations' = <<0, 0>>
    /\ UNCHANGED <<inputVars, call>>

NextRepeat ==
    \/ Solve
    \/ GreedyStart
    \/ GreedyOuter
    \/ GreedyInner
    \/ GreedyLeftover
    \/ GreedyFinish
    \/ ClusteringStart
    \/ InitializeClusterCenters
    \/ KMeansIteration
    \/ ClassifyCluster
    \/ Redistribute
    \/ MergeExcess
    \/ GlobalRebalance
    \/ RebalancePlace
    \/ FinalCleanup
    \/ ClusteringFinish
    \/ SolveAgain

SpecRepeat == InitRepeat /\ [][NextRepeat]_vars

(***************************************************************************)
(* Properties.  A produced result is an AlgorithmResult that an algorithm  *)
(* has handed back: the value solve() returned and, in auto mode, the      *)
(* results collected so far.                                               *)
(***************************************************************************)
ProducedResults ==
    Range(results) \cup (IF outcome.status = "returned" THEN {outcome.value} ELSE {})

\* the results of the greedy packer and of clustering + repair
CoreResults ==
    { r \in ProducedResults :
        r.algorithmUsed \in {AlgorithmName("mip"), AlgorithmName("clustering")} }


\* the options the caller configured, defaults filled in, and what the
\* sanitizer makes of them
Configured == MergeOptions(DEFAULT_OPTIONS, options)
Sanitized == validateAndSanitizeOptions(options, NumCompetitors)

\* a configuration that needs no coercion
ValidConfiguration ==
    /\ Configured.minSubsetSize >= MinAllowedMinSize
    /\ Configured.minSubsetSize <= Configured.preferredSubsetSize
    /\ Configured.preferredSubsetSize <= Configured.maxSubsetSize
    /\ Configured.maxSubsets >= 1

\* ss holds every competitor 1..n exactly once and nothing else
IsPartition(ss, n) ==
    LET all == FlattenSeq(ss)
    IN Len(all) = n /\ Range(all) = 1..n

\* no group of ss holds only part of a family
Atomic(ss) ==
    \A g \in DOMAIN ss : \A m \in Range(ss[g]) :
        /\ competitors[m].guardianId # 0 => competitors[m].guardianId \in Range(ss[g])
        /\ \A d \in DOMAIN competitors :
               competitors[d].guardianId = m => d \in Range(ss[g])

\* some group of ss holds a guardian together with a dependent
HoldsFamily(ss) ==
    \E g \in DOMAIN ss : \E m \in Range(ss[g]) : competitors[m].guardianId \in Range(ss[g])

\* C1: for a non-empty input, the partition returned by the greedy packer and
\* by clustering + repair holds every input entity in exactly one group and
\* no entity that is not in the input
C1_Coverage ==
    NumCompetitors > 0 =>
        \A r \in CoreResults : IsPartition(r.result.subsets, NumCompetitors)

\* C1 witness: clustering has returned several groups for an input of five
\* competitors with a family among them
C1_CoverageWitness ==
    /\ outcome.status = "returned"
    /\ Algorithm = "clustering"
    /\ NumCompetitors >= 5
    /\ outcome.value.result.totalSubsets >= 2
    /\ \E c \in DOMAIN competitors : competitors[c].guardianId # 0

\* C2: family atomicity holds in every state of constraint repair and of greedy
\* packing, and in the output of every algorithm: a guardian and all its
\* dependents are in the same group, or none of them is placed
C2_FamilyAtomicity ==
    /\ Atomic(subsets)
    /\ Atomic(clustersToSubsets(validCenters, families))
    /\ \A a \in solution : \A b \in solution :
           competitors[a[1]].guardianId = b[1] => a[2] = b[2]
    /\ \A r \in ProducedResults : Atomic(r.result.subsets)

\* C2 witness: the global rebalance is placing families and a group already
\* holds a guardian with a dependent
C2_FamilyAtomicityWitness ==
    /\ pc = "rebalance_place"
    /\ sortedFamilies # <<>>
    /\ Len(subsets) >= 1
    /\ HoldsFamily(subsets)

greedyForces ==
    /\ pc = "greedy_leftover" /\ unassignedFamilies # <<>>
    /\ LET family == families[Head(unassignedFamilies)]
           scanned == leftoverBestSubsetIndex(solver.options, subsets, Len(family))
       IN /\ scanned + 1 <= Len(subsets)
          /\ solver.options.maxSubsetSize - Len(subsets[scanned + 1]) < Len(family)
          /\ ~(currentSubset < solver.maxSubsets)

\* the global rebalance is about to force a family into the smallest subset
rebalanceForces ==
    /\ pc = "rebalance_place" /\ sortedFamilies # <<>>
    /\ ScanRebalance(subsets, opts, Len(families[Head(sortedFamilies)]), targetSize,
                     0, -1, -1) = -1
    /\ ~(Len(subsets) < opts.maxSubsets)

\* the final cleanup is about to merge an undersized subset into a subset
\* that has no room for it
cleanupForces ==
    /\ pc = "cleanup"
    /\ finalUndersized(subsets, opts) # <<>> /\ cleanupIterations[1] < cleanupIterations[2]
    /\ LET smallestIdx == smallestUndersizedIdx(subsets, opts) - 1
       IN /\ ScanAccommodating(subsets, opts, smallestIdx, 0, -1, -1) = -1
          /\ cleanupMergeIdx(subsets, opts, smallestIdx) # smallestIdx

\* the next step is a forced fallback
ForcedFallback ==
    \/ greedyForces
    \/ /\ pc = "redistribute" /\ redistributeFamilies # <<>>
       /\ redistributeForces(validCenters, redistributeFamilies, families, opts,
                             effectiveMaxSubsets(numClusters, opts))
    \/ rebalanceForces
    \/ cleanupForces

\* every group of r has a size within the sanitized bounds, and r has at
\* most maxSubsets groups
WithinBounds(r) ==
    /\ \A g \in DOMAIN r.result.subsets :
           /\ Len(r.result.subsets[g]) >= Sanitized.minSubsetSize
           /\ Len(r.result.subsets[g]) <= Sanitized.maxSubsetSize
    /\ r.result.totalSubsets <= Sanitized.maxSubsets

\* the input's families can be put into at most maxSubsets groups, each of a
\* size within the sanitized bounds
BoundsSatisfiable ==
    LET fams == createGuardianFamilies(competitors)
        o == Sanitized
        \* groups of at least minSubsetSize: there are at most n / minSubsetSize
        maxGroups == Min(Min(Len(fams), o.maxSubsets),
                         Max(1, NumCompetitors \div o.minSubsetSize))
        size(a, g) == SumSeq([f \in DOMAIN fams |-> IF a[f] = g THEN Len(fams[f]) ELSE 0])
    IN \E a \in [DOMAIN fams -> 1..maxGroups] :
           \A g \in 1..maxGroups :
               size(a, g) = 0 \/ /\ size(a, g) >= o.minSubsetSize
                                 /\ size(a, g) <= o.maxSubsetSize

\* C4: under a valid configuration and for an input that the bounds can be
\* met for, in a run where no forced fallback triggers, every group output by
\* the greedy packer and by clustering + repair has a size in
\* [minSubsetSize, maxSubsetSize] and there are at most maxSubsets groups
C4_NoFallbackWithinBounds ==
    (ValidConfiguration /\ BoundsSatisfiable /\ []~ForcedFallback)
        => [](\A r \in CoreResults : WithinBounds(r))

\* C5: under the default configuration, for an input of at least 2 entities,
\* every group output by the greedy packer and by clustering + repair has at
\* least 2 and at most 6 members, and there are at least ceil(n / 6) groups
C5_DefaultGroupSizes ==
    (options \in { NoOptions @@ ("algorithm" :> a) : a \in Algorithms }
     /\ NumCompetitors >= 2) =>
        \A r \in CoreResults :
            /\ \A g \in DOMAIN r.result.subsets :
                   /\ Len(r.result.subsets[g]) >= DefaultMinSubsetSize
                   /\ Len(r.result.subsets[g]) <= DefaultMaxSubsetSize
            /\ r.result.totalSubsets >= CeilDiv(NumCompetitors, DefaultMaxSubsetSize)

\* C6: under a valid configuration a call of clustering + repair runs to
\* completion: once solveClustering is running, it eventually returns or raises
C6_ClusteringTerminates ==
    [](ValidConfiguration /\ running = "clustering" => <>(running # "clustering"))

\* C7: for an empty entity list every algorithm returns, without raising and
\* without running its solver, a result whose group list is empty, with
\* totalCompetitors = 0 and totalSubsets = 0
C7_EmptyInput ==
    NumCompetitors = 0 =>
        /\ pc \in {"solve", "start", "done"}
        /\ solver = NoSolver /\ centers = <<>> /\ subsets = <<>>
        /\ outcome.status # "raised"
        /\ (pc = "done" => outcome.status = "returned")
        /\ \A r \in ProducedResults :
               /\ r.result.subsets = <<>>
               /\ r.result.totalCompetitors = 0
               /\ r.result.totalSubsets = 0

\* C7 witness: auto mode has run the three algorithms on the empty list and returned
C7_EmptyInputWitness ==
    /\ NumCompetitors = 0
    /\ outcome.status = "returned"
    /\ Len(results) = 3
    /\ { results[i].algorithmUsed : i \in DOMAIN results }
           = { AlgorithmName(a) : a \in {"mip", "mip-lp", "clustering"} }

\* C8: the scoring of a partition with zero groups gives a total score of 0
\* and a breakdown whose four components are 0
C8_ZeroGroupsScoreZero ==
    \A r \in ProducedResults :
        r.result.totalSubsets = 0 =>
            /\ r.result.score = DZero
            /\ r.result.scoreBreakdown.sizeScore = DZero
            /\ r.result.scoreBreakdown.genderScore = DZero
            /\ r.result.scoreBreakdown.ageCategoryScore = DZero
            /\ r.result.scoreBreakdown.equipmentClassScore = DZero

\* C9: for an input of exactly one entity and a valid configuration, solve
\* with every algorithm choice returns, without raising, a partition of
\* exactly one group that holds the entity
C9_SingleEntity ==
    (ValidConfiguration /\ NumCompetitors = 1 /\ pc = "done") =>
        /\ outcome.status = "returned"
        /\ outcome.value.result.subsets = << <<1>> >>

\* C10: for any user configuration the greedy packer and clustering + repair,
\* run on a non-empty input, complete without raising an error
C10_NoErrorOnBadConfiguration ==
    (NumCompetitors > 0 /\ Algorithm \in {"mip", "clustering"}) => outcome.status # "raised"

\* a direct call of fn has returned
Called(fn) == call.fn = fn /\ call.done

\* C11: the scoring function depends on the multiset contents only: permuting
\* the order of the groups and the order of the entities inside the groups
\* leaves the total score and the four breakdown components unchanged
C11_ScoreOrderInvariant ==
    Called("calculateScore") => call.ret.permuted = call.ret.original

\* x >= y of JavaScript: false when either side is NaN
DAtLeast(x, y) == ~IsNaN(x) /\ ~IsNaN(y) /\ ~DGreater(y, x)

\* C12: in auto mode solve() returns one of the results it computed, whose
\* score is greater than or equal to the score of every one of them, and of
\* those with that score the one whose algorithm ran first
C12_AutoReturnsBest ==
    (Algorithm = "auto" /\ outcome.status = "returned") =>
        \E i \in DOMAIN results :
            /\ outcome.value = [results[i] EXCEPT !.autoSelected = TRUE]
            /\ \A j \in DOMAIN results :
                   DAtLeast(results[i].result.score, results[j].result.score)
            /\ \A j \in 1..(i - 1) : results[j].result.score # results[i].result.score

\* C13: when the external LP solver reports a non-optimal or error status in
\* auto mode, the LP algorithm is left out of the comparison and solve()
\* still returns: it does not fail with the LP algorithm's error
C13_AutoSurvivesLPFailure ==
    Algorithm = "auto" => ~(outcome.status = "raised" /\ outcome.error = "Error")

\* the competitors that name g as their guardian
namingAsGuardian(cs, g) == { i \in DOMAIN cs : cs[i].guardianId = g }

\* C14: for an input whose guardian references are single-level and point to
\* entities of the input, the families createGuardianFamilies returns are
\* pairwise disjoint, their union is the input set, and every family is a
\* singleton without guardian relation or a guardian together with all the
\* entities that name it as guardian
C14_FamiliesPartitionInput ==
    Called("createGuardianFamilies") =>
        LET cs == call.args.competitors
            fams == call.ret
        IN /\ \A f, g \in DOMAIN fams : f # g => Range(fams[f]) \cap Range(fams[g]) = {}
           /\ \A f \in DOMAIN fams :
                  \A m, k \in DOMAIN fams[f] : m # k => fams[f][m] # fams[f][k]
           /\ UNION { Range(fams[f]) : f \in DOMAIN fams } = DOMAIN cs
           /\ \A f \in DOMAIN fams :
                  \/ /\ Len(fams[f]) = 1
                     /\ cs[fams[f][1]].guardianId = 0
                     /\ namingAsGuardian(cs, fams[f][1]) = {}
                  \/ /\ Len(fams[f]) > 1
                     /\ cs[fams[f][1]].guardianId = 0
                     /\ Range(fams[f]) = {fams[f][1]} \cup namingAsGuardian(cs, fams[f][1])

\* C14 witness: the grouper has returned, for four competitors, a family of
\* three and a singleton
C14_FamiliesPartitionInputWitness ==
    /\ Called("createGuardianFamilies")
    /\ Len(call.args.competitors) = 4
    /\ \E f, g \in DOMAIN call.ret : Len(call.ret[f]) = 3 /\ Len(call.ret[g]) = 1

\* C15: createGuardianFamilies emits the families in the input order of
\* their heads: a guardian's family stands at the guardian's position, also
\* when a dependent precedes the guardian in the input; a dependent gives no
\* entry of its own; inside a family the guardian is first and its
\* dependents follow in input order
C15_FamiliesInInputOrder ==
    Called("createGuardianFamilies") =>
        LET cs == call.args.competitors
            fams == call.ret
            heads == SelectSeq([i \in DOMAIN cs |-> i], LAMBDA i : cs[i].guardianId = 0)
        IN /\ Len(fams) = Len(heads)
           /\ \A f \in DOMAIN fams :
                  /\ fams[f][1] = heads[f]
                  /\ \A m \in 2..Len(fams[f]) :
                         /\ cs[fams[f][m]].guardianId = heads[f]
                         /\ m > 2 => fams[f][m - 1] < fams[f][m]

\* C15 witness: the grouper has returned a family whose guardian comes after
\* its two dependents in the input, and a family that follows it
C15_FamiliesInInputOrderWitness ==
    /\ Called("createGuardianFamilies")
    /\ Len(call.ret) = 2
    /\ call.ret[1] = <<3, 1, 2>>
    /\ call.ret[2] = <<4>>

\* C16: for every user configuration and entity count, the configuration the
\* sanitizer returns has minSubsetSize <= maxSubsetSize and
\* minSubsetSize <= preferredSubsetSize <= maxSubsetSize
C16_SanitizedSizesOrdered ==
    Called("validateAndSanitizeOptions") =>
        /\ call.ret.minSubsetSize <= call.ret.maxSubsetSize
        /\ call.ret.minSubsetSize <= call.ret.preferredSubsetSize
        /\ call.ret.preferredSubsetSize <= call.ret.maxSubsetSize

\* C17: for at most 112 entities the sanitized maxSubsetSize is at most 4
\* whatever was configured; for more than 112 entities the rule leaves
\* maxSubsetSize as configured, that is, at the larger of the two configured
\* size bounds and never below the least minimum
C17_SmallEventClamp ==
    Called("validateAndSanitizeOptions") =>
        LET configured == MergeOptions(DEFAULT_OPTIONS, call.args.options)
        IN IF call.args.competitorCount <= SmallEventLimit
           THEN call.ret.maxSubsetSize <= SmallEventMaxSize
           ELSE call.ret.maxSubsetSize =
                    Max(MinAllowedMinSize,
                        Max(configured.minSubsetSize, configured.maxSubsetSize))

\* C17 witness: for exactly 112 entities a configured maxSubsetSize of 7 has
\* come back as 4
C17_SmallEventClampWitness ==
    /\ Called("validateAndSanitizeOptions")
    /\ call.args.competitorCount = SmallEventLimit
    /\ call.args.options = [ minSubsetSize |-> 2, maxSubsetSize |-> MaxSizeOption,
                             preferredSubsetSize |-> 3 ]
    /\ call.ret.maxSubsetSize = SmallEventMaxSize

\* the caller's second call of solve() has come back
SecondRunDone == firstRun # NoOutcome /\ pc = "done"

C20_NoEmptyGroup ==
    NumCompetitors > 0 =>
        \A r \in CoreResults :
            /\ r.result.totalSubsets >= 1
            /\ \A g \in DOMAIN r.result.subsets : Len(r.result.subsets[g]) > 0

\* C20 witness: clustering + repair has returned after the global rebalance
\* refilled the subsets from none
C20_NoEmptyGroupWitness ==
    /\ outcome.status = "returned"
    /\ Algorithm = "clustering"
    /\ NumCompetitors >= 4
    /\ targetSize > 0
    /\ outcome.value.result.totalSubsets >= 1

\* C21: a call of solve() with any algorithm leaves its inputs as they were:
\* no step changes the competitor list (length, order, fields) or the
\* caller's options object
C21_InputsUnchanged ==
    [][competitors' = competitors /\ options' = options]_vars

\* C21 witness: clustering + repair has returned after the sanitizer swapped
\* and clamped the sizes the caller had passed, for four or more competitors
C21_InputsUnchangedWitness ==
    /\ pc = "done"
    /\ Algorithm = "clustering"
    /\ outcome.status = "returned"
    /\ NumCompetitors >= 4
    /\ "minSubsetSize" \in DOMAIN options
    /\ opts.minSubsetSize # options.minSubsetSize
    /\ opts.maxSubsetSize # options.maxSubsetSize

(***************************************************************************)
(* solveClustering up to its call of initializeClusterCenters, on lists of *)
(* up to MaxClusterCountN competitors.                                     *)
(***************************************************************************)
InitClusterCount ==
    /\ options \in { uo @@ ("algorithm" :> "clustering") : uo \in UserOptionSets }
    /\ competitors \in CompetitorLists(MaxClusterCountN)
    /\ FreshCall
    /\ random = Unseeded
    /\ firstRun = NoOutcome
    /\ call = NoCall

NextClusterCount ==
    \/ Solve
    \/ ClusteringStart

SpecClusterCount == InitClusterCount /\ [][NextClusterCount]_vars

\* clamp(x, lo, hi): the two readings, which differ only when lo > hi
clamp(x, lo, hi) == { Max(lo, Min(hi, x)), Min(hi, Max(lo, x)) }

\* C22: the number of clusters the clustering engine chooses is
\* clamp(prefK, minK, maxK) capped at the number of families, with
\* minK = ceil(n / maxSize), maxK = min(maxGroups, floor(n / minSize)) and
\* prefK = round(n / preferredSize); it never exceeds the number of families
C22_ClusterCount ==
    pc = "init_centers" =>
        LET n == NumCompetitors
            minK == CeilDiv(n, opts.maxSubsetSize)
            maxK == Min(opts.maxSubsets, FloorDiv(n, opts.minSubsetSize))
            prefK == RoundDiv(n, opts.preferredSubsetSize)
        IN /\ \E k \in clamp(prefK, minK, maxK) : numClusters = Min(Len(families), k)
           /\ numClusters <= Len(families)

\* the per-group score of the scoring engine: calculateScore of the group alone
perGroupScore(subset) == calculateScore(competitors, <<subset>>, solver.options).score

\* C23: the family the greedy main pass adds to the current group fits, and
\* among the unplaced families that fit it gives the group the highest
\* per-group score of the scoring engine (size, gender, age and equipment
\* sub-scores); among equally scored families it is the first of the backlog
C23_GreedyPicksBestScore ==
    [][ (pc = "greedy_inner" /\ Len(unassignedFamilies') < Len(unassignedFamilies)) =>
          LET subset == subsets[currentSubset + 1]
              family(i) == families[unassignedFamilies[i]]
              fits(i) == Len(subset) + Len(family(i)) <= solver.options.maxSubsetSize
              j == CHOOSE k \in DOMAIN unassignedFamilies :
                       unassignedFamilies' = RemoveAt(unassignedFamilies, k)
          IN /\ fits(j)
             /\ subsets'[currentSubset + 1] = subset \o family(j)
             /\ \A i \in DOMAIN unassignedFamilies :
                    fits(i) =>
                        /\ ~DGreater(perGroupScore(subset \o family(i)),
                                     perGroupScore(subset \o family(j)))
                        /\ i < j => DGreater(perGroupScore(subset \o family(j)),
                                             perGroupScore(subset \o family(i))) ]_vars

(***************************************************************************)
(* The greedy packer alone, on lists long enough for its leftover pass to  *)
(* meet several non-empty groups of different sizes.                       *)
(***************************************************************************)
MaxLeftoverN == 7

InitLeftover ==
    /\ options \in { uo @@ ("algorithm" :> "mip") : uo \in UserOptionSets }
    /\ competitors \in CompetitorLists(MaxLeftoverN)
    /\ FreshCall
    /\ random = Unseeded
    /\ firstRun = NoOutcome
    /\ call = NoCall

NextLeftover ==
    \/ Solve
    \/ GreedyStart
    \/ GreedyOuter
    \/ GreedyInner
    \/ GreedyLeftover

SpecLeftover == InitLeftover /\ [][NextLeftover]_vars

\* C24: in the leftover pass of the greedy packer a family that fits in no
\* group is placed in a newly opened group when an unopened group slot
\* remains, and otherwise in a group that is currently the smallest (stated
\* for the case where every slot already holds a group, so that the smallest
\* group cannot be mistaken for an unopened slot)
C24_LeftoverPlacement ==
    [][ (/\ pc = "greedy_leftover" /\ pc' = pc
         /\ unassignedFamilies # <<>>
         /\ unassignedFamilies' = Tail(unassignedFamilies)) =>
          LET family == families[Head(unassignedFamilies)]
              fitsNowhere ==
                  \A i \in DOMAIN subsets :
                      Len(subsets[i]) + Len(family) > solver.options.maxSubsetSize
              placed(g) == subsets' = [subsets EXCEPT ![g] = @ \o family]
          IN fitsNowhere =>
                 IF currentSubset < solver.maxSubsets
                 THEN placed(currentSubset + 1)
                 ELSE (\A h \in DOMAIN subsets : subsets[h] # <<>>) =>
                          \E g \in DOMAIN subsets :
                              /\ placed(g)
                              /\ \A h \in DOMAIN subsets :
                                     Len(subsets[g]) <= Len(subsets[h]) ]_vars

(***************************************************************************)
(* The clustering engine alone, on lists of few families of any size, also *)
(* with both size bounds at four.                                          *)
(***************************************************************************)
MaxCleanupFamilies == 3

\* lists of up to MaxCleanupFamilies families
CleanupLists ==
    UNION { { BuildCompetitors(shape, profs, FALSE) :
                profs \in ProfileVectors(SumSeq(shape)) }
            : shape \in UNION { [1..k -> 1..MaxFamilySize] : k \in 0..MaxCleanupFamilies } }

CleanupOptionSets ==
    UserOptionSets \cup { [ minSubsetSize |-> 4, maxSubsetSize |-> 4 ] }

InitCleanup ==
    /\ options \in { uo @@ ("algorithm" :> "clustering") : uo \in CleanupOptionSets }
    /\ competitors \in CleanupLists
    /\ FreshCall
    /\ random = Unseeded
    /\ firstRun = NoOutcome
    /\ call = NoCall

NextCleanup ==
    \/ Solve
    \/ ClusteringStart
    \/ InitializeClusterCenters
    \/ KMeansIteration
    \/ ClassifyCluster
    \/ Redistribute
    \/ MergeExcess
    \/ GlobalRebalance
    \/ RebalancePlace
    \/ FinalCleanup
    \/ ClusteringFinish

SpecCleanup == InitCleanup /\ [][NextCleanup]_vars

\* C25: as long as a group below minSize exists together with another group,
\* the final cleanup merges a smallest such group into a smallest other group
\* that stays within maxSize or, if there is none, into a smallest other
\* group; it stops, leaving the groups as they are, only when no group is
\* below minSize or a single group remains
C25_CleanupMergesUndersized ==
    [][ pc = "cleanup" =>
          LET size(g) == Len(subsets[g])
              undersized == { g \in DOMAIN subsets : size(g) < opts.minSubsetSize }
              smallestOf(S) == { g \in S : \A h \in S : size(g) <= size(h) }
          IN IF undersized # {} /\ Len(subsets) > 1
             THEN /\ pc' = "cleanup"
                  /\ \E s \in smallestOf(undersized) :
                         LET others == DOMAIN subsets \ {s}
                             fitting == { h \in others :
                                            size(h) + size(s) <= opts.maxSubsetSize }
                         IN \E t \in smallestOf(IF fitting # {} THEN fitting ELSE others) :
                                subsets' = RemoveAt([subsets EXCEPT ![t] = @ \o subsets[s]], s)
             ELSE pc' = "clustering_result" /\ subsets' = subsets ]_vars

\* C26: the main pass of the greedy packer fills the groups left to right and
\* advances past a group only when no unplaced family fits in it: a family is
\* added to the current group only, the packer moves to the next group only,
\* and at the moment a group is closed every family still unplaced is larger
\* than the room the group has left
C26_ClosedOnlyWhenNothingFits ==
    [][ pc = "greedy_inner" =>
          /\ \A g \in DOMAIN subsets :
                 subsets'[g] # subsets[g] => g = currentSubset + 1
          /\ currentSubset' # currentSubset =>
                 /\ currentSubset' = currentSubset + 1
                 /\ \A i \in DOMAIN unassignedFamilies :
                        Len(families[unassignedFamilies[i]]) >
                            solver.options.maxSubsetSize - Len(subsets[currentSubset + 1])
        ]_vars

\* a group with room left has been closed while families are unplaced
C26_ClosedOnlyWhenNothingFitsWitness ==
    /\ pc = "greedy_outer" /\ running = "mip"
    /\ currentSubset >= 1
    /\ unassignedFamilies # <<>>
    /\ subsets[currentSubset] # <<>>
    /\ Len(subsets[currentSubset]) < solver.options.maxSubsetSize

(***************************************************************************)
(* calculateScore called on a single group, every weight at its default 1: *)
(* the breakdown is then the four sub-scores of the group, unweighted.     *)
(***************************************************************************)
MaxSubScoreSize == 4

\* four of the equipment classes of the type EquipmentClass
EquipmentClasses == { "HB", "LB", "TR", "BHR" }

SubScoreProfiles ==
    { [ gender |-> p.gender, ageCategory |-> p.ageCategory, equipmentClass |-> e,
        guardianId |-> 0 ] : p \in Profiles, e \in EquipmentClasses }

SubScoreOptionSets ==
    { [ groupByEquipmentClass |-> g, preferredSubsetSize |-> p ] :
        g \in BOOLEAN, p \in {2, DefaultPreferredSubsetSize} }

InitSubScore ==
    /\ NoSolveCall
    /\ \E size \in 1..MaxSubScoreSize : \E cs \in [1..size -> SubScoreProfiles] :
       \E o \in SubScoreOptionSets :
          call = [ fn |-> "calculateScore", done |-> FALSE,
                   args |-> [ competitors |-> cs,
                              subsets |-> <<[m \in 1..size |-> m]>>,
                              options |-> o ] ]

CallCalculateScoreOfGroup ==
    /\ call.fn = "calculateScore" /\ ~call.done
    /\ call' = [ fn |-> call.fn, done |-> TRUE, args |-> call.args,
                 ret |-> [ group |-> calculateScore(call.args.competitors,
                                                    call.args.subsets,
                                                    call.args.options) ] ]
    /\ UNCHANGED <<inputVars, localVars, pc, running, results, outcome, subsets,
                   greedyVars, clusterVars, random, firstRun>>

NextSubScore == CallCalculateScoreOfGroup

SpecSubScore == InitSubScore /\ [][NextSubScore]_vars

\* C27: for a non-empty group each of the four sub-scores (size, gender, age,
\* equipment) lies between 0 and 10 before weighting, in grouping mode and
\* in distribution mode of the equipment criterion
C27_SubScoresInRange ==
    (Called("calculateScore") /\ "group" \in DOMAIN call.ret) =>
        \A k \in DOMAIN call.ret.group.breakdown :
            /\ DAtLeast(call.ret.group.breakdown[k], DZero)
            /\ DAtLeast(DInt(10), call.ret.group.breakdown[k])

\* C28: the global rebalance rebuilds the partition only when the number of
\* groups equals maxGroups exactly and some group breaks the minimum or the
\* maximum size; in every other case it leaves the groups, their order and
\* their members unchanged. A rebuild opens at most maxGroups groups and
\* places every family exactly once
C28_RebalanceFrame ==
    [][ /\ pc = "rebalance" =>
              LET rebuilds ==
                      /\ Len(subsets) = opts.maxSubsets
                      /\ \E g \in DOMAIN subsets :
                             \/ Len(subsets[g]) < opts.minSubsetSize
                             \/ Len(subsets[g]) > opts.maxSubsetSize
              IN IF rebuilds THEN pc' = "rebalance_place"
                 ELSE pc' = "cleanup" /\ subsets' = subsets
        /\ pc = "rebalance_place" =>
              /\ Len(subsets') <= opts.maxSubsets
              /\ pc' = "cleanup" =>
                     /\ IsPartition(subsets', NumCompetitors)
                     /\ \A f \in DOMAIN families :
                            \E g \in DOMAIN subsets' :
                                Range(families[f]) \subseteq Range(subsets'[g])
      ]_vars

\* a rebuild has placed every family and opened more than one group
C28_RebalanceFrameWitness ==
    /\ pc = "rebalance_place"
    /\ sortedFamilies = <<>>
    /\ Len(families) >= 3
    /\ Len(subsets) >= 2

\* C29: for a configuration that needs no coercion, the list of clusters
\* adjustClusterSizes returns never has more entries than the cap it was
\* given: the initial number of clusters, or maxGroups when that number is 0
C29_AdjustWithinCap ==
    (pc = "redistribute" /\ redistributeFamilies = <<>> /\ ValidConfiguration) =>
        Len(validCenters) <= (IF numClusters # 0 THEN numClusters ELSE opts.maxSubsets)

\* C30: the options sanitizer is idempotent: for every configuration and
\* entity count, sanitizing the configuration it returned, for the same
\* entity count, returns that configuration unchanged
C30_SanitizerIdempotent ==
    Called("validateAndSanitizeOptions") =>
        validateAndSanitizeOptions(call.ret, call.args.competitorCount) = call.ret

====
